---- MODULE Spec2Model ----
(***************************************************************************)
(* Thesis submission and review workflow (draft-deck-backend).             *)
(*                                                                         *)
(* The state is the content of the thesis and feedback repositories and    *)
(* the user table; every action is one HTTP request handler (or one call   *)
(* of a use case) run to completion, as the handlers run one at a time.    *)
(* `last` is the answer of the request that ran last.                      *)
(*                                                                         *)
(* Not modelled: updated_at / created_at (no operation reads them),        *)
(* description and metadata (handled exactly like title by the handlers),  *)
(* thesis_type after creation (no handler reads the stored value),         *)
(* file_path / file_size / file_type (written together with file_name).    *)
(***************************************************************************)
EXTENDS Integers, Sequences, FiniteSets, TLC

----------------------------------------------------------------------------
(* Bounds of the model *)

\* number of successful status transitions (each reads the wall clock once)
MaxClock == 5
\* number of feedback records the feedback repository can hold
MaxFeedback == 2

----------------------------------------------------------------------------
(* Values *)

\* Optional[...] = None
None == "None"
\* a timestamp column holding NULL; real times are 1, 2, ...
NoTime == 0
\* nobody has set out to reach a status yet
NoGoal == "none"

Students == {"s1", "s2"}
Advisors == {"a1", "a2"}
Admins == {"adm"}
Users == Students \cup Advisors \cup Admins
\* an id no stored user has
Ghost == "ghost"

ThesisIds == {"t1"}

UserRole == {"student", "advisor", "admin"}

ThesisStatus ==
    {"draft", "submitted", "under_review", "needs_revision", "approved", "rejected"}

ThesisType == {"draft", "final"}

\* the table with a way out of approved
VALID_STATUS_TRANSITIONS_Reopen ==
    [s \in ThesisStatus |->
        CASE s = "draft" -> {"submitted"}
          [] s = "submitted" -> {"under_review"}
          [] s = "under_review" -> {"needs_revision", "approved", "rejected"}
          [] s = "needs_revision" -> {"submitted"}
          [] s = "approved" -> {"needs_revision"}
          [] s = "rejected" -> {}]

\* the table without the way back from needs_revision
VALID_STATUS_TRANSITIONS_NoResubmit ==
    [s \in ThesisStatus |->
        CASE s = "draft" -> {"submitted"}
          [] s = "submitted" -> {"under_review"}
          [] s = "under_review" -> {"needs_revision", "approved", "rejected"}
          [] s = "needs_revision" -> {}
          [] s = "approved" -> {}
          [] s = "rejected" -> {}]

VALID_STATUS_TRANSITIONS ==
    [s \in ThesisStatus |->
        CASE s = "draft" -> {"submitted"}
          [] s = "submitted" -> {"under_review"}
          [] s = "under_review" -> {"needs_revision", "approved", "rejected"}
          [] s = "needs_revision" -> {"submitted"}
          [] s = "approved" -> {}
          [] s = "rejected" -> {}]

\* collaborator outcomes: the storage service accepts the file, finds it invalid, or
\* fails; the notification service returns True, returns False, or raises; the feedback
\* repository stores the record, or fails with an SQLAlchemyError
StorageOutcomes == {"ok", "invalid", "error"}
NotifyOutcomes == {"sent", "failed", "raised"}
StoreOutcomes == {"ok", "error"}

\* request inputs: a valid request, and requests with one fault each
\* POST /api/theses: [title, thesis_type, file, storage, notify]
CreateInputs ==
    {[title |-> "Study X", thesis_type |-> ty, file |-> f, storage |-> "ok", notify |-> "sent"] :
        ty \in {"draft", "final"}, f \in {None, "f1.pdf"}}
    \cup {[title |-> "", thesis_type |-> "final", file |-> None, storage |-> "ok", notify |-> "sent"],
          [title |-> "Study X", thesis_type |-> "thesis", file |-> None, storage |-> "ok", notify |-> "sent"],
          [title |-> "Study X", thesis_type |-> "final", file |-> "f1.pdf", storage |-> "invalid", notify |-> "sent"],
          [title |-> "Study X", thesis_type |-> "final", file |-> "f1.pdf", storage |-> "error", notify |-> "sent"],
          [title |-> "Study X", thesis_type |-> "final", file |-> None, storage |-> "ok", notify |-> "failed"],
          [title |-> "Study X", thesis_type |-> "final", file |-> None, storage |-> "ok", notify |-> "raised"]}

\* PUT /api/theses/<id>: [multipart, title, file, storage]; a JSON request carries no file
UpdateInputs ==
    {[multipart |-> FALSE, title |-> "", file |-> None, storage |-> "ok"],
     [multipart |-> FALSE, title |-> "Study Y", file |-> None, storage |-> "ok"],
     [multipart |-> TRUE, title |-> None, file |-> "f1.pdf", storage |-> "ok"],
     [multipart |-> TRUE, title |-> None, file |-> "f1.pdf", storage |-> "error"]}

StatusInputs == ThesisStatus \cup {"published"}

\* rating: Optional[int] = None
NoRating == -1

\* POST /api/feedback: [overall_comments, rating, comments, store, notify]
FeedbackInputs ==
    {[overall_comments |-> "Good start", rating |-> 4, comments |-> << >>, store |-> "ok", notify |-> "sent"],
     [overall_comments |-> "Good start", rating |-> NoRating, comments |-> <<"c1", "c2">>, store |-> "ok", notify |-> "sent"],
     [overall_comments |-> "", rating |-> 4, comments |-> << >>, store |-> "ok", notify |-> "sent"],
     [overall_comments |-> "Good start", rating |-> 6, comments |-> << >>, store |-> "ok", notify |-> "sent"],
     [overall_comments |-> "Good start", rating |-> 4, comments |-> << >>, store |-> "error", notify |-> "sent"],
     [overall_comments |-> "Good start", rating |-> 4, comments |-> << >>, store |-> "ok", notify |-> "failed"],
     [overall_comments |-> "Good start", rating |-> 4, comments |-> << >>, store |-> "ok", notify |-> "raised"]}

----------------------------------------------------------------------------
VARIABLES
    role,       \* user table: the role of every stored user
    theses,     \* thesis repository: thesis id -> persisted thesis
    feedbacks,  \* feedback repository: the persisted feedback, in creation order
    clock,      \* the wall clock
    last,       \* the request that ran last and its answer
    inflight,   \* the requests that run side by side: what each has loaded and done
    users,      \* user table: the other columns of every stored user
    outbox,     \* the verification code mailed to each user, with its expiry
    blacklisted_tokens,  \* JwtService.blacklisted_tokens
    goal        \* the status the people working on the thesis have set out to reach

vars == <<role, theses, feedbacks, clock, last, inflight, users, outbox, blacklisted_tokens, goal>>

\* the status and advisor of thesis tid as the request found them
Prev(tid) ==
    IF tid \in DOMAIN theses
    THEN [status |-> theses[tid].status, advisor_id |-> theses[tid].advisor_id]
    ELSE [status |-> None, advisor_id |-> None]

\* arg: the target status of a status request, the comments of a feedback request, the
\* feedback id of a feedback update, the request and the steps taken of a create call
Response(op, actor, tid, arg, code, error) ==
    [op |-> op, actor |-> actor, tid |-> tid, arg |-> arg, code |-> code, error |-> error,
     prev |-> Prev(tid)]

\* the answer of a feedback request, with the rating the request carried
RatedResponse(op, actor, tid, arg, rating, code, error) ==
    [op |-> op, actor |-> actor, tid |-> tid, arg |-> arg, rating |-> rating, code |-> code,
     error |-> error, prev |-> Prev(tid)]

----------------------------------------------------------------------------
(* Thesis entity *)

\* Thesis(...) as SubmitThesisUseCase builds it
NewThesis(id, title, student_id) ==
    [id |-> id, title |-> title, student_id |-> student_id, advisor_id |-> None,
     status |-> "draft", version |-> 1,
     file_name |-> None,
     submitted_at |-> NoTime, approved_at |-> NoTime, rejected_at |-> NoTime]

\* _validate that accepts an empty title
ThesisValidate_NoTitle(title, student_id, thesis_type) ==
    IF student_id = None THEN "ValidationException"
    ELSE IF thesis_type \notin ThesisType THEN "ValidationException"
    ELSE None

\* Thesis._validate: the exception it raises, or None
ThesisValidate(title, student_id, thesis_type) ==
    IF title = "" THEN "ValidationException"
    ELSE IF student_id = None THEN "ValidationException"
    ELSE IF thesis_type \notin ThesisType THEN "ValidationException"
    ELSE None

\* update_status that stamps submitted_at on the first submission only
update_status_SubmittedOnce(t, new_status, now) ==
    IF new_status \notin VALID_STATUS_TRANSITIONS[t.status]
    THEN [raised |-> "InvalidStatusTransitionException", thesis |-> t]
    ELSE [raised |-> None,
          thesis |->
            [t EXCEPT !.status = new_status,
                      !.submitted_at = IF new_status = "submitted" /\ @ = NoTime
                                       THEN now ELSE @,
                      !.approved_at = IF new_status = "approved" THEN now ELSE @,
                      !.rejected_at = IF new_status = "rejected" THEN now ELSE @]]

\* update_status that forgets the submission when a revision is asked for
update_status_ClearsOnRevision(t, new_status, now) ==
    IF new_status \notin VALID_STATUS_TRANSITIONS[t.status]
    THEN [raised |-> "InvalidStatusTransitionException", thesis |-> t]
    ELSE [raised |-> None,
          thesis |->
            [t EXCEPT !.status = new_status,
                      !.submitted_at = IF new_status = "submitted" THEN now
                                       ELSE IF new_status = "needs_revision" THEN NoTime
                                       ELSE @,
                      !.approved_at = IF new_status = "approved" THEN now ELSE @,
                      !.rejected_at = IF new_status = "rejected" THEN now ELSE @]]

\* update_status that checks nothing when the thesis is in a terminal status
update_status_TerminalUnchecked(t, new_status, now) ==
    IF t.status \notin {"approved", "rejected"}
       /\ new_status \notin VALID_STATUS_TRANSITIONS[t.status]
    THEN [raised |-> "InvalidStatusTransitionException", thesis |-> t]
    ELSE [raised |-> None,
          thesis |->
            [t EXCEPT !.status = new_status,
                      !.submitted_at = IF new_status = "submitted" THEN now ELSE @,
                      !.approved_at = IF new_status = "approved" THEN now ELSE @,
                      !.rejected_at = IF new_status = "rejected" THEN now ELSE @]]

\* Thesis.update_status: raises, or sets the status and the status' timestamp
update_status(t, new_status, now) ==
    IF new_status \notin VALID_STATUS_TRANSITIONS[t.status]
    THEN [raised |-> "InvalidStatusTransitionException", thesis |-> t]
    ELSE [raised |-> None,
          thesis |->
            [t EXCEPT !.status = new_status,
                      !.submitted_at = IF new_status = "submitted" THEN now ELSE @,
                      !.approved_at = IF new_status = "approved" THEN now ELSE @,
                      !.rejected_at = IF new_status = "rejected" THEN now ELSE @]]

\* Thesis.update_file_info
update_file_info(t, file_name) == [t EXCEPT !.file_name = file_name]

\* assign_advisor that loses the assignment
assign_advisor_Lost(t, advisor_id) == t

\* Thesis.assign_advisor: overwrites unconditionally
assign_advisor(t, advisor_id) == [t EXCEPT !.advisor_id = advisor_id]

----------------------------------------------------------------------------
(* Repositories *)

\* ThesisRepository.get_by_id: a fresh entity, or None
ThesisExists(th, tid) == tid \in DOMAIN th

\* ThesisRepository.create
ThesisRepoCreate(th, t) == [x \in DOMAIN th \cup {t.id} |-> IF x = t.id THEN t ELSE th[x]]

\* ThesisRepository.update that leaves the stored title alone
ThesisRepoUpdate_KeepsTitle(th, t) == [th EXCEPT ![t.id] = [t EXCEPT !.title = th[t.id].title]]

\* ThesisRepository.update: writes every field of the entity over the row
ThesisRepoUpdate(th, t) == [th EXCEPT ![t.id] = t]

----------------------------------------------------------------------------
(* users table *)

\* the student number of the students stored from the start
StudentNo(u) == IF u = "s1" THEN "n1" ELSE "n2"

\* password_hash_service.hash and .verify
hash_password(password) == <<"hash", password>>

verify_password(password, password_hash) == password_hash = hash_password(password)

\* UserModel: the columns besides id, email and role
UserRow(student_id, is_active, password_hash) ==
    [student_id |-> student_id, is_active |-> is_active, password_hash |-> password_hash]

----------------------------------------------------------------------------
\* the requests served side by side (one worker each)
Slots == {"r1", "r2"}

\* a worker that serves no request
IdleSlot ==
    [pc |-> "idle", op |-> None, actor |-> None, tid |-> None, arg |-> None,
     thesis |-> None, code |-> 0]

Init ==
    /\ role = [u \in Users |->
                 IF u \in Students THEN "student"
                 ELSE IF u \in Advisors THEN "advisor" ELSE "admin"]
    /\ theses = [x \in {} |-> None]
    /\ feedbacks = << >>
    /\ clock = 0
    /\ last = [op |-> "none", actor |-> None, tid |-> None, arg |-> None, code |-> 0,
               error |-> None, prev |-> [status |-> None, advisor_id |-> None]]
    /\ inflight = [r \in Slots |-> IdleSlot]
    /\ users = [u \in Users |-> UserRow(IF u \in Students THEN StudentNo(u) ELSE None, TRUE,
                                        hash_password("password123"))]
    /\ outbox = << >>
    /\ blacklisted_tokens = {}
    /\ goal = NoGoal

----------------------------------------------------------------------------
(* Route guards *)

\* require_role: the route's answer when the actor's role is not allowed, else 0
require_role(rl, actor, allowed) == IF rl[actor] \notin allowed THEN 403 ELSE 0

\* the access check knowing the owner only
CanAccessThesis_OwnerOnly(rl, actor, t) == actor = t.student_id

\* the access check letting every advisor in
CanAccessThesis_AnyAdvisor(rl, actor, t) ==
    \/ actor = t.student_id
    \/ rl[actor] = "advisor"
    \/ rl[actor] = "admin"

\* thesis_owner_or_advisor: is_owner or is_advisor or is_admin
CanAccessThesis(rl, actor, t) ==
    \/ actor = t.student_id
    \/ (t.advisor_id # None /\ actor = t.advisor_id)
    \/ rl[actor] = "admin"

\* thesis_owner_or_advisor: 404 for no thesis, 403 for no access, else 0 (g.thesis is set)
thesis_owner_or_advisor(rl, th, actor, tid) ==
    IF ~ThesisExists(th, tid) THEN 404
    ELSE IF ~CanAccessThesis(rl, actor, th[tid]) THEN 403
    ELSE 0

GuardError(code) == IF code = 404 THEN "Not found" ELSE "Permission denied"

----------------------------------------------------------------------------
(* POST /api/theses: create_thesis and SubmitThesisUseCase.execute *)

\* ThesisCreateSchema: title of 3..255 characters, thesis_type one of ThesisType
ThesisCreateSchemaOk(title, thesis_type) == title # "" /\ thesis_type \in ThesisType

\* SubmitThesisUseCase.execute that stores the thesis before it uploads the file
SubmitThesisExecute_PersistFirst(th, rl, id, title, thesis_type, student_id, file, storage, notify) ==
    IF student_id \notin DOMAIN rl
    THEN [exc |-> "ValidationException", theses |-> th, events |-> << >>]
    ELSE IF rl[student_id] # "student"
    THEN [exc |-> "ValidationException", theses |-> th, events |-> << >>]
    ELSE IF thesis_type \notin ThesisType
    THEN [exc |-> "ValidationException", theses |-> th, events |-> << >>]
    ELSE IF ThesisValidate(title, student_id, thesis_type) # None
    THEN [exc |-> "ValidationException", theses |-> th, events |-> << >>]
    ELSE
      LET t0 == NewThesis(id, title, student_id)
          th1 == ThesisRepoCreate(th, t0)
          t == IF file # None THEN update_file_info(t0, file) ELSE t0
          th2 == ThesisRepoCreate(th, t)
          sent == IF thesis_type = "final" THEN <<"notify">> ELSE << >>
      IN  IF file # None /\ storage = "invalid"
          THEN [exc |-> "ValidationException", theses |-> th1,
                events |-> <<"create", "validate_file">>]
          ELSE IF file # None /\ storage = "error"
          THEN [exc |-> "FileStorageException", theses |-> th1,
                events |-> <<"create", "validate_file">>]
          ELSE [exc |-> IF thesis_type = "final" /\ notify = "raised" THEN "Exception" ELSE None,
                theses |-> th2,
                events |-> <<"create">>
                           \o (IF file # None THEN <<"validate_file", "upload", "file_info">>
                               ELSE << >>)
                           \o sent]

\* The result: the exception raised (or None), the thesis repository as the call left
\* it, and the calls the use case made on its collaborators and its entity, in order:
\* validate_file, upload (upload_file returned), file_info (update_file_info), create
\* (thesis_repository.create), notify (notify_new_thesis_submission called).
SubmitThesisExecute(th, rl, id, title, thesis_type, student_id, file, storage, notify) ==
    IF student_id \notin DOMAIN rl
    THEN [exc |-> "ValidationException", theses |-> th, events |-> << >>]
    ELSE IF rl[student_id] # "student"
    THEN [exc |-> "ValidationException", theses |-> th, events |-> << >>]
    ELSE IF thesis_type \notin ThesisType
    THEN [exc |-> "ValidationException", theses |-> th, events |-> << >>]
    ELSE IF ThesisValidate(title, student_id, thesis_type) # None
    THEN [exc |-> "ValidationException", theses |-> th, events |-> << >>]
    ELSE IF file # None /\ storage = "invalid"
    THEN [exc |-> "ValidationException", theses |-> th, events |-> <<"validate_file">>]
    ELSE IF file # None /\ storage = "error"
    THEN [exc |-> "FileStorageException", theses |-> th, events |-> <<"validate_file">>]
    ELSE
      LET t0 == NewThesis(id, title, student_id)
          t == IF file # None THEN update_file_info(t0, file) ELSE t0
          th2 == ThesisRepoCreate(th, t)
          stored == IF file # None THEN <<"validate_file", "upload", "file_info">> ELSE << >>
      IN  IF thesis_type # "final"
          THEN [exc |-> None, theses |-> th2, events |-> stored \o <<"create">>]
          ELSE IF notify = "raised"
          THEN [exc |-> "Exception", theses |-> th2,
                events |-> stored \o <<"create", "notify">>]
          ELSE [exc |-> None, theses |-> th2, events |-> stored \o <<"create", "notify">>]

\* the request of a create call and what the use case did: the arg of its answer
SubmitArg(title, thesis_type, file, events) ==
    [title |-> title, thesis_type |-> thesis_type, file |-> file, events |-> events]

\* a call of the use case, by any caller
SubmitThesis(student_id, title, thesis_type, file, storage, notify) ==
    /\ \E id \in ThesisIds \ DOMAIN theses :
        LET r == SubmitThesisExecute(theses, role, id, title, thesis_type, student_id,
                                     file, storage, notify)
        IN  /\ theses' = r.theses
            /\ last' = Response("submit_thesis", student_id, id,
                                SubmitArg(title, thesis_type, file, r.events), 0, r.exc)
    /\ UNCHANGED <<goal, role, users, outbox, blacklisted_tokens, inflight, feedbacks, clock>>

\* the route's except clauses
ExcCode(exc) ==
    CASE exc = "ValidationException" -> 400
      [] exc = "FileStorageException" -> 400
      [] exc = "EntityNotFoundException" -> 404
      [] OTHER -> 500

ExcError(exc) ==
    CASE exc = "ValidationException" -> "Validation error"
      [] exc = "FileStorageException" -> "File upload error"
      [] exc = "EntityNotFoundException" -> "Not found"
      [] OTHER -> "Server error"

CreateThesis(actor, title, thesis_type, file, storage, notify) ==
    /\ \E id \in ThesisIds \ DOMAIN theses :
        LET guard == require_role(role, actor, {"student"})
            r == SubmitThesisExecute(theses, role, id, title, thesis_type, actor,
                                     file, storage, notify)
        IN  IF guard # 0
            THEN /\ last' = Response("create", actor, id, SubmitArg(title, thesis_type, file, << >>),
                                     guard, GuardError(guard))
                 /\ UNCHANGED theses
            ELSE IF ~ThesisCreateSchemaOk(title, thesis_type)
            THEN /\ last' = Response("create", actor, id, SubmitArg(title, thesis_type, file, << >>),
                                     400, "Validation error")
                 /\ UNCHANGED theses
            ELSE IF r.exc # None
            THEN /\ last' = Response("create", actor, id,
                                     SubmitArg(title, thesis_type, file, r.events),
                                     ExcCode(r.exc), ExcError(r.exc))
                 /\ theses' = r.theses
            ELSE /\ last' = Response("create", actor, id,
                                     SubmitArg(title, thesis_type, file, r.events), 201, None)
                 /\ theses' = r.theses
    /\ UNCHANGED <<goal, role, users, outbox, blacklisted_tokens, inflight, feedbacks, clock>>

----------------------------------------------------------------------------
(* PUT /api/theses/<id>/status: update_thesis_status *)

\* ThesisStatusUpdateSchema: status one of ThesisStatus
ThesisStatusUpdateSchemaOk(status) == status \in ThesisStatus

\* no restriction on students
StudentRestricted_Off(t, new_status) == FALSE

\* "Students can only submit drafts": the restriction the route puts on a student
StudentRestricted(t, new_status) == t.status # "draft" /\ new_status # "submitted"

UpdateThesisStatus(actor, tid, new_status) ==
    LET guard == thesis_owner_or_advisor(role, theses, actor, tid)
        thesis == theses[tid]
        r == update_status(thesis, new_status, clock + 1)
    IN  /\ IF guard # 0
           THEN /\ last' = Response("status", actor, tid, new_status, guard, GuardError(guard))
                /\ UNCHANGED <<theses, clock>>
           ELSE IF ~ThesisStatusUpdateSchemaOk(new_status)
           THEN /\ last' = Response("status", actor, tid, new_status, 400, "Validation error")
                /\ UNCHANGED <<theses, clock>>
           ELSE IF role[actor] = "student" /\ StudentRestricted(thesis, new_status)
           THEN /\ last' = Response("status", actor, tid, new_status, 400,
                                    "Invalid status transition")
                /\ UNCHANGED <<theses, clock>>
           ELSE IF r.raised # None
           THEN /\ last' = Response("status", actor, tid, new_status,
                                    ExcCode(r.raised), ExcError(r.raised))
                /\ UNCHANGED <<theses, clock>>
           ELSE /\ clock < MaxClock
                /\ last' = Response("status", actor, tid, new_status, 200, None)
                /\ theses' = ThesisRepoUpdate(theses, r.thesis)
                /\ clock' = clock + 1
        /\ UNCHANGED <<goal, role, users, outbox, blacklisted_tokens, inflight, feedbacks>>

----------------------------------------------------------------------------
(* PUT /api/theses/<id>: update_thesis *)

\* ThesisUpdateSchema without the Length validator on title
ThesisUpdateSchemaOk_NoLength(title) == TRUE

\* ThesisUpdateSchema: title, when given, of 3..255 characters
ThesisUpdateSchemaOk(title) == title # ""

\* "Only allow updates for drafts or theses that need revision"
UpdatableStatus(t) == t.status \in {"draft", "needs_revision"}

\* the route's owner check: it is made for multipart requests only
UpdateDenied(actor, t, multipart) == actor # t.student_id /\ multipart

UpdateThesis(actor, tid, multipart, title, file, storage) ==
    LET guard == thesis_owner_or_advisor(role, theses, actor, tid)
        thesis == theses[tid]
        t1 == IF title # None THEN [thesis EXCEPT !.title = title] ELSE thesis
        t2 == IF multipart /\ file # None THEN update_file_info(t1, file) ELSE t1
    IN  /\ IF guard # 0
           THEN /\ last' = Response("update", actor, tid, None, guard, GuardError(guard))
                /\ UNCHANGED theses
           ELSE IF UpdateDenied(actor, thesis, multipart)
           THEN /\ last' = Response("update", actor, tid, None, 403, "Permission denied")
                /\ UNCHANGED theses
           ELSE IF ~UpdatableStatus(thesis)
           THEN /\ last' = Response("update", actor, tid, None, 400, "Invalid state")
                /\ UNCHANGED theses
           ELSE IF ~ThesisUpdateSchemaOk(title)
           THEN /\ last' = Response("update", actor, tid, None, 400, "Validation error")
                /\ UNCHANGED theses
           ELSE IF multipart /\ file # None /\ storage # "ok"
           THEN /\ last' = Response("update", actor, tid, None, 400, "File upload error")
                /\ UNCHANGED theses
           ELSE /\ last' = Response("update", actor, tid, None, 200, None)
                /\ theses' = ThesisRepoUpdate(theses, t2)
        /\ UNCHANGED <<goal, role, users, outbox, blacklisted_tokens, inflight, feedbacks, clock>>

----------------------------------------------------------------------------
(* Thesis.update_title_description *)

\* the entity after the assignments: a falsy title leaves the field
update_title_description(t, title) ==
    IF title # None /\ title # "" THEN [t EXCEPT !.title = title] ELSE t

\* _validate at the end of the method: the exception it raises, or None
UpdateTitleRaises(t, title) ==
    LET t1 == update_title_description(t, title)
    IN  IF t1.title = "" THEN "ValidationException"
        ELSE IF t1.student_id = None THEN "ValidationException"
        ELSE IF t1.status \notin ThesisStatus THEN "ValidationException"
        ELSE None

\* a call of the method on stored thesis tid, saved when it returns
UpdateTitleDescription(tid, title) ==
    LET exc == UpdateTitleRaises(theses[tid], title)
    IN  /\ ThesisExists(theses, tid)
        /\ theses' = IF exc # None THEN theses
                     ELSE ThesisRepoUpdate(theses, update_title_description(theses[tid], title))
        /\ last' = Response("update_title_description", theses[tid].student_id, tid, title, 0, exc)
        /\ UNCHANGED <<goal, role, users, outbox, blacklisted_tokens, inflight, feedbacks, clock>>

----------------------------------------------------------------------------
(* POST /api/theses/<id>/assign: assign_advisor *)

\* the assign route without its check
AlreadyAssigned_Off(t) == FALSE

\* "Check if thesis already has an advisor"
AlreadyAssigned(t) == t.advisor_id # None

AssignAdvisor(actor, tid) ==
    LET guard == require_role(role, actor, {"advisor"})
    IN  /\ IF guard # 0
           THEN /\ last' = Response("assign", actor, tid, None, guard, GuardError(guard))
                /\ UNCHANGED theses
           ELSE IF ~ThesisExists(theses, tid)
           THEN /\ last' = Response("assign", actor, tid, None, 404, "Not found")
                /\ UNCHANGED theses
           ELSE IF AlreadyAssigned(theses[tid])
           THEN /\ last' = Response("assign", actor, tid, None, 400, "Already assigned")
                /\ UNCHANGED theses
           ELSE /\ last' = Response("assign", actor, tid, None, 200, None)
                /\ theses' = ThesisRepoUpdate(theses, assign_advisor(theses[tid], actor))
        /\ UNCHANGED <<goal, role, users, outbox, blacklisted_tokens, inflight, feedbacks, clock>>

----------------------------------------------------------------------------
(* GET /api/theses/<id>, GET /api/theses/<id>/download,                    *)
(* GET /api/feedback/thesis/<id>                                           *)

ReadKinds == {"get", "download", "list_feedback"}

ReadThesis(actor, tid, kind) ==
    LET guard == thesis_owner_or_advisor(role, theses, actor, tid)
    IN  /\ IF guard # 0
           THEN last' = Response(kind, actor, tid, None, guard, GuardError(guard))
           ELSE IF kind = "download" /\ theses[tid].file_name = None
           THEN last' = Response(kind, actor, tid, None, 404, "Not found")
           ELSE last' = Response(kind, actor, tid, None, 200, None)
        /\ UNCHANGED <<goal, role, users, outbox, blacklisted_tokens, inflight, theses, feedbacks, clock>>

----------------------------------------------------------------------------
(* Feedback entity and repository *)

\* Feedback._validate: the exception it raises, or None
FeedbackValidate(thesis_id, advisor_id, overall_comments, rating) ==
    IF thesis_id = None THEN "ValidationException"
    ELSE IF advisor_id = None THEN "ValidationException"
    ELSE IF overall_comments = "" THEN "ValidationException"
    ELSE IF rating # NoRating /\ (rating < 1 \/ rating > 5) THEN "ValidationException"
    ELSE None

\* Feedback(...) as ProvideFeedbackUseCase builds it: no comments yet
NewFeedback(thesis_id, advisor_id, overall_comments, rating) ==
    [thesis_id |-> thesis_id, advisor_id |-> advisor_id,
     overall_comments |-> overall_comments, rating |-> rating, comments |-> << >>]

\* Feedback.add_comment: appends
add_comment(fb, content) == [fb EXCEPT !.comments = Append(@, content)]

\* the loop "for comment_dto in dto.comments: feedback.add_comment(...)"
RECURSIVE AddComments(_, _)
AddComments(fb, comments) ==
    IF comments = << >> THEN fb
    ELSE AddComments(add_comment(fb, Head(comments)), Tail(comments))

\* FeedbackRepository.create: the feedback row and its comment rows, in list order
FeedbackRepoCreate(fbs, fb) == Append(fbs, fb)

----------------------------------------------------------------------------
(* ProvideFeedbackUseCase.execute *)

\* feedback accepted in every status
FeedbackStatusOk_Any(t) == TRUE

\* "Ensure thesis is in a valid state for feedback"
FeedbackStatusOk(t) == t.status \in {"submitted", "under_review"}

\* the assignment check made only while the thesis is under review
NotAssignedAdvisor_ReviewOnly(t, advisor_id) ==
    t.status = "under_review" /\ t.advisor_id # None /\ t.advisor_id # advisor_id

\* "Check if advisor is assigned to this thesis"
NotAssignedAdvisor(t, advisor_id) == t.advisor_id # None /\ t.advisor_id # advisor_id

\* a use case that undoes what it persisted when a later step raises
NoRollback_Undo(th_before, th_now) == th_before

\* the use case has no transaction around its steps: when a later step raises, the
\* thesis repository stays as the earlier steps left it
NoRollback(th_before, th_now) == th_now

\* as_dicts: dto.comments holds the dicts the route builds, not FeedbackCommentCreateDTO
\* objects, so reading comment_dto.content raises AttributeError on the first comment.
\* The result: the exception raised (or None) with the repositories as the call left them.
ProvideFeedbackExecute(th, fbs, rl, advisor_id, tid, overall, rating, comments, as_dicts, store, notify, now) ==
    IF advisor_id \notin DOMAIN rl
    THEN [exc |-> "EntityNotFoundException", theses |-> th, feedbacks |-> fbs, ticked |-> FALSE]
    ELSE IF rl[advisor_id] # "advisor"
    THEN [exc |-> "ValidationException", theses |-> th, feedbacks |-> fbs, ticked |-> FALSE]
    ELSE IF ~ThesisExists(th, tid)
    THEN [exc |-> "EntityNotFoundException", theses |-> th, feedbacks |-> fbs, ticked |-> FALSE]
    ELSE IF ~FeedbackStatusOk(th[tid])
    THEN [exc |-> "ValidationException", theses |-> th, feedbacks |-> fbs, ticked |-> FALSE]
    ELSE IF NotAssignedAdvisor(th[tid], advisor_id)
    THEN [exc |-> "ValidationException", theses |-> th, feedbacks |-> fbs, ticked |-> FALSE]
    ELSE
      LET t0 == th[tid]
          \* "If no advisor is assigned, assign this advisor" and persist
          t1 == IF t0.advisor_id = None THEN assign_advisor(t0, advisor_id) ELSE t0
          th1 == IF t0.advisor_id = None THEN ThesisRepoUpdate(th, t1) ELSE th
          \* "Update thesis status to under review if it's currently submitted" and persist
          adv == t1.status = "submitted"
          t2 == IF adv THEN update_status(t1, "under_review", now).thesis ELSE t1
          th2 == IF adv THEN ThesisRepoUpdate(th1, t2) ELSE th1
          invalid == FeedbackValidate(tid, advisor_id, overall, rating)
          fb == AddComments(NewFeedback(tid, advisor_id, overall, rating), comments)
          fbs2 == FeedbackRepoCreate(fbs, fb)
      IN  IF invalid # None
          THEN [exc |-> invalid, theses |-> NoRollback(th, th2), feedbacks |-> fbs, ticked |-> adv]
          ELSE IF as_dicts /\ comments # << >>
          THEN [exc |-> "AttributeError", theses |-> NoRollback(th, th2), feedbacks |-> fbs,
                ticked |-> adv]
          \* FeedbackRepositoryImpl.create: rollback of its own session, ValidationException
          ELSE IF store = "error"
          THEN [exc |-> "ValidationException", theses |-> NoRollback(th, th2), feedbacks |-> fbs,
                ticked |-> adv]
          ELSE IF notify = "raised"
          THEN [exc |-> "Exception", theses |-> th2, feedbacks |-> fbs2, ticked |-> adv]
          ELSE [exc |-> None, theses |-> th2, feedbacks |-> fbs2, ticked |-> adv]

\* a call of the use case with FeedbackCommentCreateDTO comments
ProvideFeedback(advisor_id, tid, overall, rating, comments, store, notify) ==
    LET r == ProvideFeedbackExecute(theses, feedbacks, role, advisor_id, tid, overall,
                                    rating, comments, FALSE, store, notify, clock + 1)
    IN  /\ r.ticked => clock < MaxClock
        /\ Len(r.feedbacks) <= MaxFeedback
        /\ theses' = r.theses
        /\ feedbacks' = r.feedbacks
        /\ clock' = IF r.ticked THEN clock + 1 ELSE clock
        /\ last' = RatedResponse("provide_feedback", advisor_id, tid, comments, rating, 0, r.exc)
        /\ UNCHANGED <<goal, role, users, outbox, blacklisted_tokens, inflight>>

----------------------------------------------------------------------------
(* POST /api/feedback: create_feedback *)

\* FeedbackCreateSchema: rating, when given, in 1..5
FeedbackCreateSchemaOk(rating) == rating = NoRating \/ (rating >= 1 /\ rating <= 5)

CreateFeedback(actor, tid, overall, rating, comments, store, notify) ==
    LET guard == require_role(role, actor, {"advisor"})
        r == ProvideFeedbackExecute(theses, feedbacks, role, actor, tid, overall,
                                    rating, comments, TRUE, store, notify, clock + 1)
    IN  /\ IF guard # 0
           THEN /\ last' = RatedResponse("create_feedback", actor, tid, comments, rating, guard, GuardError(guard))
                /\ UNCHANGED <<theses, feedbacks, clock>>
           ELSE IF ~FeedbackCreateSchemaOk(rating)
           THEN /\ last' = RatedResponse("create_feedback", actor, tid, comments, rating, 400, "Validation error")
                /\ UNCHANGED <<theses, feedbacks, clock>>
           ELSE /\ r.ticked => clock < MaxClock
                /\ Len(r.feedbacks) <= MaxFeedback
                /\ theses' = r.theses
                /\ feedbacks' = r.feedbacks
                /\ clock' = IF r.ticked THEN clock + 1 ELSE clock
                /\ last' = IF r.exc # None
                           THEN RatedResponse("create_feedback", actor, tid, comments, rating,
                                         ExcCode(r.exc), ExcError(r.exc))
                           ELSE RatedResponse("create_feedback", actor, tid, comments, rating, 201, None)
        /\ UNCHANGED <<goal, role, users, outbox, blacklisted_tokens, inflight>>

----------------------------------------------------------------------------
(* PUT /api/feedback/<id>: update_feedback *)

\* rating key not in the request body
NoKey == -2

\* PUT /api/feedback/<id>: [overall_comments, rating, set_comments, comments]; None and
\* NoKey stand for a key the body does not carry
FeedbackUpdateInputs ==
    {[overall_comments |-> "Revised", rating |-> 5, set_comments |-> FALSE, comments |-> << >>],
     [overall_comments |-> None, rating |-> 0, set_comments |-> FALSE, comments |-> << >>],
     [overall_comments |-> None, rating |-> NoKey, set_comments |-> TRUE, comments |-> <<"c3">>]}

\* FeedbackRepository.get_by_id
FeedbackExists(fbs, fid) == fid \in 1..Len(fbs)

\* "Check if user is the advisor who provided the feedback"
NotFeedbackAuthor(rl, actor, fb) == actor # fb.advisor_id /\ rl[actor] # "admin"

\* FeedbackUpdateSchema without the Range validator on rating
FeedbackUpdateSchemaOk_NoRange(rating) == TRUE

\* FeedbackUpdateSchema: rating, when given and not null, in 1..5
FeedbackUpdateSchemaOk(rating) ==
    rating = NoKey \/ rating = NoRating \/ (rating >= 1 /\ rating <= 5)

\* "Update feedback fields" and "Process comments if provided": the fields are assigned
\* directly, the comments replaced
UpdatedFeedback(fb, overall, rating, set_comments, comments) ==
    LET f1 == IF overall # None THEN [fb EXCEPT !.overall_comments = overall] ELSE fb
        f2 == IF rating # NoKey THEN [f1 EXCEPT !.rating = rating] ELSE f1
    IN  IF set_comments THEN AddComments([f2 EXCEPT !.comments = << >>], comments) ELSE f2

\* FeedbackRepository.update: the row's fields and its comment rows rewritten
FeedbackRepoUpdate(fbs, fid, fb) == [fbs EXCEPT ![fid] = fb]

UpdateFeedback(actor, fid, overall, rating, set_comments, comments) ==
    LET guard == require_role(role, actor, {"advisor"})
        tid == IF FeedbackExists(feedbacks, fid) THEN feedbacks[fid].thesis_id ELSE None
    IN  /\ IF guard # 0
           THEN /\ last' = RatedResponse("update_feedback", actor, tid, fid, rating, guard, GuardError(guard))
                /\ UNCHANGED feedbacks
           ELSE IF ~FeedbackExists(feedbacks, fid)
           THEN /\ last' = RatedResponse("update_feedback", actor, tid, fid, rating, 404, "Not found")
                /\ UNCHANGED feedbacks
           ELSE IF NotFeedbackAuthor(role, actor, feedbacks[fid])
           THEN /\ last' = RatedResponse("update_feedback", actor, tid, fid, rating, 403, "Permission denied")
                /\ UNCHANGED feedbacks
           ELSE IF ~FeedbackUpdateSchemaOk(rating)
           THEN /\ last' = RatedResponse("update_feedback", actor, tid, fid, rating, 400, "Validation error")
                /\ UNCHANGED feedbacks
           ELSE /\ feedbacks' = FeedbackRepoUpdate(feedbacks, fid,
                                    UpdatedFeedback(feedbacks[fid], overall, rating,
                                                    set_comments, comments))
                /\ last' = RatedResponse("update_feedback", actor, tid, fid, rating, 200, None)
        /\ UNCHANGED <<goal, role, users, outbox, blacklisted_tokens, inflight, theses, clock>>

----------------------------------------------------------------------------
(* Feedback.update_overall_feedback *)

\* the exception the method raises, or None: the new rating is checked before it is set,
\* and _validate runs on the result
UpdateOverallRaises(fb, overall, rating) ==
    IF rating # NoRating /\ (rating < 1 \/ rating > 5) THEN "ValidationException"
    ELSE FeedbackValidate(fb.thesis_id, fb.advisor_id,
                          IF overall # None /\ overall # "" THEN overall ELSE fb.overall_comments,
                          IF rating # NoRating THEN rating ELSE fb.rating)

\* the entity after the call: a falsy overall_comments and a None rating leave the field
update_overall_feedback(fb, overall, rating) ==
    LET f1 == IF overall # None /\ overall # "" THEN [fb EXCEPT !.overall_comments = overall]
              ELSE fb
    IN  IF rating # NoRating THEN [f1 EXCEPT !.rating = rating] ELSE f1

\* a call of the method on stored feedback fid, saved when it returns
UpdateOverallFeedback(fid, overall, rating) ==
    LET fb == feedbacks[fid]
        exc == UpdateOverallRaises(fb, overall, rating)
    IN  /\ FeedbackExists(feedbacks, fid)
        /\ feedbacks' = IF exc # None THEN feedbacks
                        ELSE FeedbackRepoUpdate(feedbacks, fid,
                                                update_overall_feedback(fb, overall, rating))
        /\ last' = RatedResponse("update_overall_feedback", fb.advisor_id, fb.thesis_id, fid,
                                 rating, 0, exc)
        /\ UNCHANGED <<goal, role, users, outbox, blacklisted_tokens, inflight, theses, clock>>

----------------------------------------------------------------------------
Next ==
    \/ \E actor \in Users, d \in CreateInputs :
            CreateThesis(actor, d.title, d.thesis_type, d.file, d.storage, d.notify)
    \/ \E student_id \in Users \cup {Ghost}, d \in CreateInputs :
            SubmitThesis(student_id, d.title, d.thesis_type, d.file, d.storage, d.notify)
    \/ \E actor \in Users, tid \in ThesisIds, s \in StatusInputs :
            UpdateThesisStatus(actor, tid, s)
    \/ \E actor \in Users, tid \in ThesisIds, d \in UpdateInputs :
            UpdateThesis(actor, tid, d.multipart, d.title, d.file, d.storage)
    \/ \E actor \in Users, tid \in ThesisIds : AssignAdvisor(actor, tid)
    \/ \E actor \in Users, tid \in ThesisIds, kind \in ReadKinds :
            ReadThesis(actor, tid, kind)
    \/ \E advisor_id \in Users \cup {Ghost}, tid \in ThesisIds, d \in FeedbackInputs :
            ProvideFeedback(advisor_id, tid, d.overall_comments, d.rating, d.comments,
                            d.store, d.notify)
    \/ \E actor \in Users, tid \in ThesisIds, d \in FeedbackInputs :
            CreateFeedback(actor, tid, d.overall_comments, d.rating, d.comments,
                           d.store, d.notify)

Spec == Init /\ [][Next]_vars

----------------------------------------------------------------------------
(* The review of one thesis with its feedback: student s1's thesis, the status route, *)
(* the feedback route and the feedback update route                                   *)

NextFeedback ==
    \/ CreateThesis("s1", "Study X", "draft", None, "ok", "sent")
    \/ \E actor \in Users, tid \in ThesisIds, s \in ThesisStatus :
            UpdateThesisStatus(actor, tid, s)
    \/ \E actor \in Advisors, tid \in ThesisIds, d \in FeedbackInputs :
            CreateFeedback(actor, tid, d.overall_comments, d.rating, d.comments,
                           d.store, d.notify)
    \/ \E actor \in Users, fid \in 1..MaxFeedback, d \in FeedbackUpdateInputs :
            UpdateFeedback(actor, fid, d.overall_comments, d.rating, d.set_comments, d.comments)

SpecFeedback == Init /\ [][NextFeedback]_vars

----------------------------------------------------------------------------
(* User entity and repository *)

\* how long a verification code is good for: expiry_hours = 24, in ticks of the clock
CodeLifetime == 2

\* UserModel.to_entity: the row has no column for email_verified, verification_code or
\* verification_code_expiry, so the entity gets the dataclass defaults
to_entity(rl_u, row) ==
    [role |-> rl_u, student_id |-> row.student_id, is_active |-> row.is_active,
     password_hash |-> row.password_hash, email_verified |-> FALSE,
     verification_code |-> None, verification_code_expiry |-> NoTime]

\* UserModel.from_entity: the columns taken from the entity (role goes to its own column)
from_entity(user) == UserRow(user.student_id, user.is_active, user.password_hash)

\* User(...) as RegisterUseCase builds it
NewUser(rl_u, student_id, password_hash) ==
    [role |-> rl_u, student_id |-> student_id, is_active |-> TRUE,
     password_hash |-> password_hash, email_verified |-> FALSE,
     verification_code |-> None, verification_code_expiry |-> NoTime]

\* User._validate: the exception it raises, or None (email and names are always given)
UserValidate(rl_u, student_id) ==
    IF rl_u \notin UserRole THEN "ValidationException"
    ELSE IF rl_u = "student" /\ student_id \in {None, ""} THEN "ValidationException"
    ELSE None

\* User.set_verification_code
set_verification_code(user, code, now) ==
    [user EXCEPT !.verification_code = code, !.verification_code_expiry = now + CodeLifetime,
                 !.email_verified = FALSE]

\* User.verify_email: whether the code was taken, and the entity after the call
verify_email(user, code, now) ==
    IF user.verification_code = None \/ user.verification_code_expiry = NoTime
    THEN [ok |-> FALSE, user |-> user]
    ELSE IF user.verification_code = code /\ user.verification_code_expiry > now
    THEN [ok |-> TRUE, user |-> [user EXCEPT !.email_verified = TRUE,
                                             !.verification_code = None,
                                             !.verification_code_expiry = NoTime]]
    ELSE [ok |-> FALSE, user |-> user]

\* UserRepository.get_by_id / get_by_email
UserExists(rl, u) == u \in DOMAIN rl

\* UserRepository.get_by_student_id
StudentIdTaken(us, student_id) == \E x \in DOMAIN us : us[x].student_id = student_id

\* UserRepository.create: the role column and the other columns of the new row
RoleColumnCreate(rl, u, user) == [x \in DOMAIN rl \cup {u} |-> IF x = u THEN user.role ELSE rl[x]]

UserRepoCreate(us, u, user) ==
    [x \in DOMAIN us \cup {u} |-> IF x = u THEN from_entity(user) ELSE us[x]]

\* UserRepository.update: "Update all fields from entity"
RoleColumnUpdate(rl, u, user) == [rl EXCEPT ![u] = user.role]

UserRepoUpdate(us, u, user) == [us EXCEPT ![u] = from_entity(user)]

----------------------------------------------------------------------------
(* POST /api/auth/register, /verify-email, /login *)

\* the addresses a registration is tried with: a new one and a stored one
RegisterEmails == {"u1", "s1"}

\* the addresses a login is tried with; "zz" is stored nowhere
LoginEmails == {"u1", "a1", "zz"}

\* the codes _generate_verification_code can draw, and a code that is not five digits
Codes == {"11111", "22222"}

BadCode == "abc"

\* the passwords of the requests; the second is shorter than 8 characters
Passwords == {"password123", "hunter2"}

\* POST /api/auth/register: [role, student_id, password]
RegisterInputs ==
    {[role |-> "student", student_id |-> "n3", password |-> "password123"],
     [role |-> "student", student_id |-> None, password |-> "password123"],
     [role |-> "student", student_id |-> "", password |-> "password123"],
     [role |-> "student", student_id |-> "n1", password |-> "password123"],
     [role |-> "advisor", student_id |-> None, password |-> "password123"],
     [role |-> "advisor", student_id |-> None, password |-> "hunter2"],
     [role |-> "dean", student_id |-> None, password |-> "password123"]}

\* RegisterSchema: role one of the three, password of 8 characters or more; its
\* validate_student_id finds no role to look at and never refuses
RegisterSchemaOk(rl_u, password) == rl_u \in UserRole /\ password # "hunter2"

\* RegisterUseCase.execute: the exception it raises, or None
RegisterRaises(rl, us, u, rl_u, student_id) ==
    IF UserExists(rl, u) THEN "ValidationException"
    ELSE IF rl_u = "student" /\ student_id \notin {None, ""} /\ StudentIdTaken(us, student_id)
    THEN "ValidationException"
    ELSE UserValidate(rl_u, student_id)

Register(u, rl_u, student_id, password, code) ==
    LET exc == RegisterRaises(role, users, u, rl_u, student_id)
        user == set_verification_code(NewUser(rl_u, student_id, hash_password(password)),
                                      code, clock)
        arg == [role |-> rl_u, student_id |-> student_id]
    IN  /\ IF ~RegisterSchemaOk(rl_u, password) \/ exc # None
           THEN /\ last' = Response("register", u, None, arg, 400, "Validation error")
                /\ UNCHANGED <<role, users, outbox>>
           ELSE /\ role' = RoleColumnCreate(role, u, user)
                /\ users' = UserRepoCreate(users, u, user)
                \* the EMAIL_VERIFICATION notification
                /\ outbox' = [x \in DOMAIN outbox \cup {u} |->
                                 IF x = u THEN [code |-> code,
                                                expiry |-> user.verification_code_expiry]
                                 ELSE outbox[x]]
                /\ last' = Response("register", u, None, arg, 201, None)
        /\ UNCHANGED <<goal, blacklisted_tokens, inflight, theses, feedbacks, clock>>

\* EmailVerificationSchema: code of five digits
EmailVerificationSchemaOk(code) == code \in Codes

\* verify_email with VerifyEmailUseCase.execute
VerifyEmail(u, code) ==
    LET user == to_entity(role[u], users[u])
        r == verify_email(user, code, clock)
    IN  /\ IF ~EmailVerificationSchemaOk(code)
           THEN /\ last' = Response("verify_email", u, None, code, 400, "Validation error")
                /\ UNCHANGED <<role, users>>
           ELSE IF ~UserExists(role, u)
           THEN /\ last' = Response("verify_email", u, None, code, 400, "Validation error")
                /\ UNCHANGED <<role, users>>
           ELSE IF user.email_verified
           THEN /\ last' = Response("verify_email", u, None, code, 200, None)
                /\ UNCHANGED <<role, users>>
           ELSE IF r.ok
           THEN /\ role' = RoleColumnUpdate(role, u, r.user)
                /\ users' = UserRepoUpdate(users, u, r.user)
                /\ last' = Response("verify_email", u, None, code, 200, None)
           ELSE /\ last' = Response("verify_email", u, None, code, 400,
                                    "Invalid verification code")
                /\ UNCHANGED <<role, users>>
        /\ UNCHANGED <<goal, outbox, blacklisted_tokens, inflight, theses, feedbacks, clock>>

\* LoginUseCase.execute: the exception it raises, or None
LoginRaises(rl, us, u, password) ==
    IF ~UserExists(rl, u) THEN "ValidationException"
    ELSE IF ~us[u].is_active THEN "ValidationException"
    ELSE IF ~verify_password(password, us[u].password_hash) THEN "ValidationException"
    ELSE None

\* login: the tokens are in the answer only when the code is 200
Login(u, password) ==
    LET exc == LoginRaises(role, users, u, password)
    IN  /\ IF exc # None
           THEN last' = Response("login", u, None, password, 401, "Authentication failed")
           ELSE IF ~to_entity(role[u], users[u]).email_verified
           THEN last' = Response("login", u, None, password, 403, "Email not verified")
           ELSE last' = Response("login", u, None, password, 200, None)
        /\ UNCHANGED <<goal, role, users, outbox, blacklisted_tokens, inflight, theses, feedbacks, clock>>

\* the clock moves on between two requests
TimePasses ==
    /\ clock < MaxClock
    /\ clock' = clock + 1
    /\ UNCHANGED <<goal, role, users, outbox, blacklisted_tokens, inflight, theses, feedbacks, last>>

----------------------------------------------------------------------------
(* authenticate, and the routes behind it: GET /api/auth/me, POST /api/auth/logout, *)
(* PUT /api/admin/users/<id>                                                        *)

\* a JWT: whose it is, and whether its signature and expiry are good
TokenKinds == {"good", "expired", "forged"}

NoToken == [sub |-> None, kind |-> None]

\* the users the presented tokens are made out to; "zz" is stored nowhere
TokenSubjects == {"adm", "a1", "zz"}

\* the Authorization header of a request; NoHeader when there is none
NoHeader == [scheme |-> None, token |-> NoToken]

HeaderInputs ==
    {NoHeader, [scheme |-> "Basic", token |-> [sub |-> "adm", kind |-> "good"]]}
    \cup {[scheme |-> "Bearer", token |-> [sub |-> u, kind |-> k]] :
              u \in TokenSubjects, k \in TokenKinds}

\* str.lower on the scheme
Lower(scheme) ==
    IF scheme = "Bearer" THEN "bearer" ELSE IF scheme = "Basic" THEN "basic" ELSE scheme

\* get_token_from_header
get_token_from_header(header) ==
    IF header = NoHeader THEN NoToken
    ELSE IF Lower(header.scheme) # "bearer" THEN NoToken
    ELSE header.token

\* JwtService.verify_token
verify_token(bl, token) == token \notin bl /\ token.kind = "good"

\* authenticate that lets an inactive user through
authenticate_NoActiveCheck(rl, us, bl, header) ==
    LET token == get_token_from_header(header)
    IN  IF token = NoToken
        THEN [code |-> 401, error |-> "Authentication required", user |-> None]
        ELSE IF ~verify_token(bl, token)
        THEN [code |-> 401, error |-> "Invalid authentication token", user |-> None]
        ELSE IF ~UserExists(rl, token.sub)
        THEN [code |-> 401, error |-> "Invalid user", user |-> None]
        ELSE [code |-> 0, error |-> None, user |-> token.sub]

\* authenticate: the answer it gives itself, or code 0 and g.user when it calls the route
authenticate(rl, us, bl, header) ==
    LET token == get_token_from_header(header)
    IN  IF token = NoToken
        THEN [code |-> 401, error |-> "Authentication required", user |-> None]
        ELSE IF ~verify_token(bl, token)
        THEN [code |-> 401, error |-> "Invalid authentication token", user |-> None]
        ELSE IF ~UserExists(rl, token.sub)
        THEN [code |-> 401, error |-> "Invalid user", user |-> None]
        ELSE IF ~us[token.sub].is_active
        THEN [code |-> 403, error |-> "Account inactive", user |-> None]
        ELSE [code |-> 0, error |-> None, user |-> token.sub]

\* get_current_user
GetCurrentUser(header) ==
    LET a == authenticate(role, users, blacklisted_tokens, header)
        arg == [header |-> header]
    IN  /\ IF a.code # 0
           THEN last' = Response("me", a.user, None, arg, a.code, a.error)
           ELSE last' = Response("me", a.user, None, arg, 200, None)
        /\ UNCHANGED <<goal, role, users, outbox, blacklisted_tokens, inflight, theses, feedbacks, clock>>

\* logout: JwtService.revoke_token puts the token on the blacklist
Logout(header) ==
    LET a == authenticate(role, users, blacklisted_tokens, header)
        arg == [header |-> header]
    IN  /\ IF a.code # 0
           THEN /\ last' = Response("logout", a.user, None, arg, a.code, a.error)
                /\ UNCHANGED blacklisted_tokens
           ELSE /\ last' = Response("logout", a.user, None, arg, 200, None)
                /\ blacklisted_tokens' = blacklisted_tokens \cup {header.token}
        /\ UNCHANGED <<goal, role, users, outbox, inflight, theses, feedbacks, clock>>

\* the users an admin update is aimed at; "zz" is stored nowhere
UpdateTargets == {"a1", "zz"}

\* PUT /api/admin/users/<id>: [student_id, is_active, role]; None for a key the body
\* does not carry
UpdateUserInputs ==
    {[student_id |-> None, is_active |-> "false", role |-> None],
     [student_id |-> None, is_active |-> None, role |-> "student"],
     [student_id |-> None, is_active |-> None, role |-> "advisor"],
     [student_id |-> None, is_active |-> None, role |-> "dean"],
     [student_id |-> "", is_active |-> None, role |-> None],
     [student_id |-> "n4", is_active |-> None, role |-> "student"]}

\* "Update fields": each field is assigned as it comes, the student_id only for a user
\* who is a student before the role is looked at; _validate is not called
UpdatedUser(user, student_id, is_active, rl_u) ==
    LET u1 == IF student_id # None /\ user.role = "student"
              THEN [user EXCEPT !.student_id = student_id] ELSE user
        u2 == IF is_active # None THEN [u1 EXCEPT !.is_active = (is_active = "true")] ELSE u1
    IN  IF rl_u # None /\ rl_u \in UserRole THEN [u2 EXCEPT !.role = rl_u] ELSE u2

\* update_user
UpdateUser(header, target, student_id, is_active, rl_u) ==
    LET a == authenticate(role, users, blacklisted_tokens, header)
        guard == require_role(role, a.user, {"admin"})
        arg == [header |-> header, target |-> target, role |-> rl_u, student_id |-> student_id]
        user == UpdatedUser(to_entity(role[target], users[target]), student_id, is_active, rl_u)
    IN  /\ IF a.code # 0
           THEN /\ last' = Response("update_user", a.user, None, arg, a.code, a.error)
                /\ UNCHANGED <<role, users>>
           ELSE IF guard # 0
           THEN /\ last' = Response("update_user", a.user, None, arg, guard, GuardError(guard))
                /\ UNCHANGED <<role, users>>
           ELSE IF ~UserExists(role, target)
           THEN /\ last' = Response("update_user", a.user, None, arg, 404, "Not found")
                /\ UNCHANGED <<role, users>>
           ELSE /\ role' = RoleColumnUpdate(role, target, user)
                /\ users' = UserRepoUpdate(users, target, user)
                /\ last' = Response("update_user", a.user, None, arg, 200, None)
        /\ UNCHANGED <<goal, outbox, blacklisted_tokens, inflight, theses, feedbacks, clock>>

----------------------------------------------------------------------------
(* Accounts: registration, verification, login, and the admin's user update *)

\* the admin's token, and an advisor's
AdminHeader == [scheme |-> "Bearer", token |-> [sub |-> "adm", kind |-> "good"]]

AdvisorHeader == [scheme |-> "Bearer", token |-> [sub |-> "a1", kind |-> "good"]]

NextUsers ==
    \/ \E u \in RegisterEmails, d \in RegisterInputs, code \in Codes :
            Register(u, d.role, d.student_id, d.password, code)
    \/ \E u \in RegisterEmails \cup {"zz"}, code \in Codes \cup {BadCode} : VerifyEmail(u, code)
    \/ \E u \in LoginEmails, password \in Passwords : Login(u, password)
    \/ \E header \in {AdminHeader, AdvisorHeader}, target \in UpdateTargets, d \in UpdateUserInputs :
            UpdateUser(header, target, d.student_id, d.is_active, d.role)
    \/ TimePasses

SpecUsers == Init /\ [][NextUsers]_vars

----------------------------------------------------------------------------
(* Requests through authenticate, with accounts switched off and on and tokens revoked *)

NextAuth ==
    \/ \E header \in HeaderInputs : GetCurrentUser(header)
    \/ \E header \in HeaderInputs : Logout(header)
    \/ \E header \in HeaderInputs, target \in {"a1", "adm"}, is_active \in {"true", "false"} :
            UpdateUser(header, target, None, is_active, None)

SpecAuth == Init /\ [][NextAuth]_vars

----------------------------------------------------------------------------
(* The operations on a thesis: creation, content update, title update, status change, *)
(* advisor assignment                                                                 *)

\* the titles update_title_description is called with
NewTitleInputs == {None, "", "Study Z"}

NextThesis ==
    \/ \E actor \in Users, d \in CreateInputs :
            CreateThesis(actor, d.title, d.thesis_type, d.file, d.storage, d.notify)
    \/ \E student_id \in Users \cup {Ghost}, d \in CreateInputs :
            SubmitThesis(student_id, d.title, d.thesis_type, d.file, d.storage, d.notify)
    \/ \E actor \in Users, tid \in ThesisIds, s \in StatusInputs :
            UpdateThesisStatus(actor, tid, s)
    \/ \E actor \in Users, tid \in ThesisIds, d \in UpdateInputs :
            UpdateThesis(actor, tid, d.multipart, d.title, d.file, d.storage)
    \/ \E actor \in Users, tid \in ThesisIds : AssignAdvisor(actor, tid)
    \/ \E tid \in ThesisIds, title \in NewTitleInputs : UpdateTitleDescription(tid, title)

SpecThesis == Init /\ [][NextThesis]_vars

----------------------------------------------------------------------------
(* Ratings: every way a rating reaches a Feedback record, on a thesis under review *)

\* the ratings a request can carry: none, and the integers around the range
RatingInputs == {NoRating} \cup (0..6)

NextRating ==
    \/ CreateThesis("s1", "Study X", "draft", None, "ok", "sent")
    \/ \E tid \in ThesisIds : UpdateThesisStatus("s1", tid, "submitted")
    \/ \E tid \in ThesisIds, rating \in RatingInputs :
            CreateFeedback("a1", tid, "Good start", rating, << >>, "ok", "sent")
    \/ \E tid \in ThesisIds, rating \in RatingInputs :
            ProvideFeedback("a1", tid, "Good start", rating, << >>, "ok", "sent")
    \/ \E fid \in 1..MaxFeedback, rating \in RatingInputs \cup {NoKey} :
            UpdateFeedback("a1", fid, None, rating, FALSE, << >>)
    \/ \E fid \in 1..MaxFeedback, overall \in {None, "Revised"}, rating \in RatingInputs :
            UpdateOverallFeedback(fid, overall, rating)

SpecRating == Init /\ [][NextRating]_vars

----------------------------------------------------------------------------
(* Requests on one thesis served side by side. thesis_owner_or_advisor loads the     *)
(* thesis into g.thesis; the handler changes that entity and hands it to             *)
(* thesis_repository.update. Between the two, other requests run.                    *)

\* the guard of a PUT /api/theses/<id> or PUT /api/theses/<id>/status request: it
\* answers itself, or leaves the loaded entity to the handler
BeginRequest(r, op, actor, tid, arg) ==
    LET guard == thesis_owner_or_advisor(role, theses, actor, tid)
    IN  /\ inflight[r].pc = "idle"
        /\ IF guard # 0
           THEN /\ last' = Response(op, actor, tid, arg, guard, GuardError(guard))
                /\ UNCHANGED inflight
           ELSE /\ inflight' = [inflight EXCEPT ![r] =
                                  [pc |-> "loaded", op |-> op, actor |-> actor, tid |-> tid,
                                   arg |-> arg, thesis |-> theses[tid], code |-> 0]]
                /\ UNCHANGED last
        /\ UNCHANGED <<goal, role, users, outbox, blacklisted_tokens, theses, feedbacks, clock>>

\* the answer of worker r is out
Done(r, code) == [inflight EXCEPT ![r].pc = "done", ![r].code = code]

\* update_thesis on the entity the guard loaded, for a JSON body with a title
FinishUpdate(r) ==
    LET q == inflight[r]
        thesis == q.thesis
    IN  /\ q.pc = "loaded"
        /\ q.op = "update"
        /\ IF UpdateDenied(q.actor, thesis, FALSE)
           THEN /\ last' = Response("update", q.actor, q.tid, q.arg, 403, "Permission denied")
                /\ inflight' = Done(r, 403)
                /\ UNCHANGED theses
           ELSE IF ~UpdatableStatus(thesis)
           THEN /\ last' = Response("update", q.actor, q.tid, q.arg, 400, "Invalid state")
                /\ inflight' = Done(r, 400)
                /\ UNCHANGED theses
           ELSE IF ~ThesisUpdateSchemaOk(q.arg)
           THEN /\ last' = Response("update", q.actor, q.tid, q.arg, 400, "Validation error")
                /\ inflight' = Done(r, 400)
                /\ UNCHANGED theses
           ELSE /\ last' = Response("update", q.actor, q.tid, q.arg, 200, None)
                /\ inflight' = Done(r, 200)
                /\ theses' = ThesisRepoUpdate(theses, [thesis EXCEPT !.title = q.arg])
        /\ UNCHANGED <<goal, role, users, outbox, blacklisted_tokens, feedbacks, clock>>

\* update_thesis_status on the entity the guard loaded
FinishStatus(r) ==
    LET q == inflight[r]
        thesis == q.thesis
        u == update_status(thesis, q.arg, clock + 1)
    IN  /\ q.pc = "loaded"
        /\ q.op = "status"
        /\ IF ~ThesisStatusUpdateSchemaOk(q.arg)
           THEN /\ last' = Response("status", q.actor, q.tid, q.arg, 400, "Validation error")
                /\ inflight' = Done(r, 400)
                /\ UNCHANGED <<theses, clock>>
           ELSE IF role[q.actor] = "student" /\ StudentRestricted(thesis, q.arg)
           THEN /\ last' = Response("status", q.actor, q.tid, q.arg, 400,
                                    "Invalid status transition")
                /\ inflight' = Done(r, 400)
                /\ UNCHANGED <<theses, clock>>
           ELSE IF u.raised # None
           THEN /\ last' = Response("status", q.actor, q.tid, q.arg,
                                    ExcCode(u.raised), ExcError(u.raised))
                /\ inflight' = Done(r, ExcCode(u.raised))
                /\ UNCHANGED <<theses, clock>>
           ELSE /\ clock < MaxClock
                /\ last' = Response("status", q.actor, q.tid, q.arg, 200, None)
                /\ inflight' = Done(r, 200)
                /\ theses' = ThesisRepoUpdate(theses, u.thesis)
                /\ clock' = clock + 1
        /\ UNCHANGED <<goal, role, users, outbox, blacklisted_tokens, feedbacks>>

----------------------------------------------------------------------------
(* ProvideFeedbackUseCase.execute served side by side: the thesis is read once, then   *)
(* written by thesis_repository.update up to twice, then the feedback is created       *)

\* "Validate advisor exists", "Validate thesis exists" and the two checks on the thesis
\* as it was read: the exception raised, or None
FeedbackChecks(rl, th, advisor_id, tid) ==
    IF advisor_id \notin DOMAIN rl THEN "EntityNotFoundException"
    ELSE IF rl[advisor_id] # "advisor" THEN "ValidationException"
    ELSE IF ~ThesisExists(th, tid) THEN "EntityNotFoundException"
    ELSE IF ~FeedbackStatusOk(th[tid]) THEN "ValidationException"
    ELSE IF NotAssignedAdvisor(th[tid], advisor_id) THEN "ValidationException"
    ELSE None

\* the use case up to its first write: it raises, or goes on with the thesis it read
BeginFeedback(r, advisor_id, tid) ==
    LET exc == FeedbackChecks(role, theses, advisor_id, tid)
    IN  /\ inflight[r].pc = "idle"
        /\ IF exc # None
           THEN /\ last' = RatedResponse("provide_feedback", advisor_id, tid, << >>, NoRating, 0, exc)
                /\ UNCHANGED inflight
           ELSE /\ inflight' = [inflight EXCEPT ![r] =
                                  [pc |-> "loaded", op |-> "provide_feedback",
                                   actor |-> advisor_id, tid |-> tid, arg |-> << >>,
                                   thesis |-> theses[tid], code |-> 0]]
                /\ UNCHANGED last
        /\ UNCHANGED <<goal, role, users, outbox, blacklisted_tokens, theses, feedbacks, clock>>

\* "If no advisor is assigned, assign this advisor", decided on the thesis as read
FeedbackAssign(r) ==
    LET q == inflight[r]
        t1 == assign_advisor(q.thesis, q.actor)
    IN  /\ q.pc = "loaded"
        /\ q.op = "provide_feedback"
        /\ IF q.thesis.advisor_id = None
           THEN /\ theses' = ThesisRepoUpdate(theses, t1)
                /\ inflight' = [inflight EXCEPT ![r].pc = "assigned", ![r].thesis = t1]
           ELSE /\ inflight' = [inflight EXCEPT ![r].pc = "assigned"]
                /\ UNCHANGED theses
        /\ UNCHANGED <<goal, role, users, outbox, blacklisted_tokens, feedbacks, clock, last>>

\* "Update thesis status to under review if it's currently submitted", on the same entity
FeedbackAdvance(r) ==
    LET q == inflight[r]
        u == update_status(q.thesis, "under_review", clock + 1)
    IN  /\ q.pc = "assigned"
        /\ IF q.thesis.status = "submitted"
           THEN /\ clock < MaxClock
                /\ theses' = ThesisRepoUpdate(theses, u.thesis)
                /\ clock' = clock + 1
                /\ inflight' = [inflight EXCEPT ![r].pc = "advanced", ![r].thesis = u.thesis]
           ELSE /\ inflight' = [inflight EXCEPT ![r].pc = "advanced"]
                /\ UNCHANGED <<theses, clock>>
        /\ UNCHANGED <<goal, role, users, outbox, blacklisted_tokens, feedbacks, last>>

\* "Create feedback entity", "Save feedback" and the return
FeedbackCreate(r, overall, rating) ==
    LET q == inflight[r]
        invalid == FeedbackValidate(q.tid, q.actor, overall, rating)
    IN  /\ q.pc = "advanced"
        /\ IF invalid # None
           THEN /\ last' = RatedResponse("provide_feedback", q.actor, q.tid, << >>, rating, 0, invalid)
                /\ inflight' = Done(r, 400)
                /\ UNCHANGED feedbacks
           ELSE /\ Len(feedbacks) < MaxFeedback
                /\ feedbacks' = FeedbackRepoCreate(feedbacks,
                                    NewFeedback(q.tid, q.actor, overall, rating))
                /\ last' = RatedResponse("provide_feedback", q.actor, q.tid, << >>, rating, 0, None)
                /\ inflight' = Done(r, 201)
        /\ UNCHANGED <<goal, role, users, outbox, blacklisted_tokens, theses, clock>>

NextFeedbackRace ==
    \/ CreateThesis("s1", "Study X", "draft", None, "ok", "sent")
    \/ \E tid \in ThesisIds : UpdateThesisStatus("s1", tid, "submitted")
    \/ \E r \in Slots, advisor_id \in Advisors \cup Admins, tid \in ThesisIds :
            BeginFeedback(r, advisor_id, tid)
    \/ \E r \in Slots : FeedbackAssign(r)
    \/ \E r \in Slots : FeedbackAdvance(r)
    \/ \E r \in Slots, rating \in {NoRating, 4, 6} : FeedbackCreate(r, "Good start", rating)

SpecFeedbackRace == Init /\ [][NextFeedbackRace]_vars

\* the titles and target statuses the side-by-side requests carry
TitleInputs == {"", "Study Y"}

NextConcurrent ==
    \/ CreateThesis("s1", "Study X", "draft", None, "ok", "sent")
    \/ \E tid \in ThesisIds : AssignAdvisor("a1", tid)
    \/ \E r \in Slots, actor \in Users, tid \in ThesisIds, title \in TitleInputs :
            BeginRequest(r, "update", actor, tid, title)
    \/ \E r \in Slots, actor \in Users, tid \in ThesisIds, s \in StatusInputs :
            BeginRequest(r, "status", actor, tid, s)
    \/ \E r \in Slots : FinishUpdate(r)
    \/ \E r \in Slots : FinishStatus(r)

SpecConcurrent == Init /\ [][NextConcurrent]_vars

\* the people who decide a thesis and its owner, each able to have a request under way
\* while the thesis is taken through its statuses by requests served one at a time
Reviewers == {"a1", "adm"}
\* what a reviewer can decide for a thesis under review
DecisionInputs == {"approved", "rejected", "needs_revision"}

NextDecide ==
    \/ CreateThesis("s1", "Study X", "draft", None, "ok", "sent")
    \/ \E tid \in ThesisIds : AssignAdvisor("a1", tid)
    \/ \E tid \in ThesisIds : UpdateThesisStatus("s1", tid, "submitted")
    \/ \E tid \in ThesisIds, s \in {"under_review", "needs_revision"} :
            UpdateThesisStatus("a1", tid, s)
    \/ \E r \in Slots, tid \in ThesisIds : BeginRequest(r, "update", "s1", tid, "Study Y")
    \/ \E r \in Slots, actor \in Reviewers, tid \in ThesisIds, s \in DecisionInputs :
            BeginRequest(r, "status", actor, tid, s)
    \/ \E r \in Slots : FinishUpdate(r)
    \/ \E r \in Slots : FinishStatus(r)

SpecDecide == Init /\ [][NextDecide]_vars

----------------------------------------------------------------------------
(* A thesis taken to a chosen status by its student, its advisor and the admin: first   *)
(* any requests, then only requests that bring the thesis one step nearer to the goal   *)

\* the owner of the thesis, the advisor and the admin
Team == {"s1", "a1", "adm"}

\* the statuses that have an outgoing transition, and the statuses to set out for
OpenStatuses == {"draft", "submitted", "under_review", "needs_revision"}
Goals == {"under_review", "needs_revision", "approved", "rejected"}

\* the longest way from an open status to a goal: three transitions
LongestPath == 3

\* the next status on the way to goal g along VALID_STATUS_TRANSITIONS
NextToward(status, g) ==
    IF status \in {"draft", "needs_revision"} THEN "submitted"
    ELSE IF status = "submitted" THEN "under_review"
    ELSE g

ChooseGoal(g) ==
    /\ goal = NoGoal
    /\ theses # [x \in {} |-> None]
    /\ goal' = g
    /\ UNCHANGED <<role, users, outbox, blacklisted_tokens, inflight, theses, feedbacks, clock, last>>

\* update_thesis_status where it answers 200: the guard lets the actor in, the body is
\* valid, the student restriction does not apply and update_status does not raise
AcceptedStatusRequest(actor, tid, new_status) ==
    LET thesis == theses[tid]
        r == update_status(thesis, new_status, clock + 1)
    IN  /\ thesis_owner_or_advisor(role, theses, actor, tid) = 0
        /\ ThesisStatusUpdateSchemaOk(new_status)
        /\ ~(role[actor] = "student" /\ StudentRestricted(thesis, new_status))
        /\ r.raised = None
        /\ clock < MaxClock + LongestPath
        /\ last' = Response("status", actor, tid, new_status, 200, None)
        /\ theses' = ThesisRepoUpdate(theses, r.thesis)
        /\ clock' = clock + 1
        /\ UNCHANGED <<goal, role, users, outbox, blacklisted_tokens, inflight, feedbacks>>

\* somebody of the team sends the status request that is next on the way to the goal
Drive ==
    \E tid \in DOMAIN theses, actor \in Team :
        /\ goal \in Goals
        /\ theses[tid].status \in OpenStatuses \ {goal}
        /\ AcceptedStatusRequest(actor, tid, NextToward(theses[tid].status, goal))

NextLive ==
    \/ goal = NoGoal /\ CreateThesis("s1", "Study X", "draft", None, "ok", "sent")
    \/ goal = NoGoal /\ \E tid \in ThesisIds : AssignAdvisor("a1", tid)
    \/ goal = NoGoal /\ \E actor \in Team, tid \in ThesisIds, s \in ThesisStatus :
            UpdateThesisStatus(actor, tid, s)
    \/ goal = NoGoal /\ \E tid \in ThesisIds :
            ProvideFeedback("a1", tid, "Good start", 4, << >>, "ok", "sent")
    \/ \E g \in Goals : ChooseGoal(g)
    \/ Drive

\* a request that has been sent is served, and the team keeps sending the next one
SpecLive == Init /\ [][NextLive]_vars /\ WF_vars(Drive)

----------------------------------------------------------------------------
(* Properties *)

\* the transition table as section 4.1 of the specification lists it
TransitionTable ==
    {<<"draft", "submitted">>, <<"submitted", "under_review">>,
     <<"under_review", "needs_revision">>, <<"under_review", "approved">>,
     <<"under_review", "rejected">>, <<"needs_revision", "submitted">>}

FeedbackOp(l) == l.op \in {"provide_feedback", "create_feedback"}

FeedbackSuccess(l) ==
    \/ l.op = "provide_feedback" /\ l.error = None
    \/ l.op = "create_feedback" /\ l.code = 201

ThesisScopedOps == {"status", "update", "get", "download", "list_feedback"}

SubmitOp(l) == l.op \in {"create", "submit_thesis"}

SubmitSuccess(l) ==
    \/ l.op = "submit_thesis" /\ l.error = None
    \/ l.op = "create" /\ l.code = 201

\* the place of step e in the steps ev of a call, 0 when it was not taken
Pos(ev, e) ==
    IF \E i \in 1..Len(ev) : ev[i] = e THEN CHOOSE i \in 1..Len(ev) : ev[i] = e ELSE 0

\* C1: for every status S a thesis is in and every target T among the six statuses,
\* update_status(T) succeeds (and sets the status to T) exactly when S -> T is in the
\* transition table; otherwise it raises InvalidStatusTransitionException and leaves
\* the thesis as it was. In particular nothing is accepted from approved or rejected.
C1_UpdateStatusIffInTable ==
    \A tid \in DOMAIN theses : \A T \in ThesisStatus :
        LET t == theses[tid]
            r == update_status(t, T, clock + 1)
        IN  IF <<t.status, T>> \in TransitionTable
            THEN r.raised = None /\ r.thesis.status = T
            ELSE r.raised = "InvalidStatusTransitionException" /\ r.thesis = t

\* an approved thesis on which a status request has just been raised out of update_status
C1_Witness ==
    /\ last.op = "status"
    /\ last.prev.status = "approved"
    /\ last.arg = "submitted"
    /\ last.error = "Server error"
    /\ theses[last.tid].status = "approved"

\* C2: whatever request runs, a thesis stays in the repository and every change of its
\* persisted status is an edge of the transition table; so the status of an approved or
\* rejected thesis never changes.
C2_StatusChangesFollowTable ==
    [][\A tid \in DOMAIN theses :
          /\ tid \in DOMAIN theses'
          /\ theses'[tid].status # theses[tid].status
                => <<theses[tid].status, theses'[tid].status>> \in TransitionTable]_vars

\* a rejected thesis that has since been through a feedback request
C2_Witness ==
    /\ FeedbackOp(last)
    /\ last.prev.status = "rejected"
    /\ theses[last.tid].status = "rejected"

\* C3: a status request of an actor with role student changes the repository only by
\* taking a draft or needs_revision thesis to submitted; every other status request of a
\* student is refused and changes no thesis.
C3_StudentOnlySubmits ==
    [][(last'.op = "status" /\ role[last'.actor] = "student") =>
          IF theses' # theses
          THEN /\ last'.tid \in DOMAIN theses
               /\ last'.arg = "submitted"
               /\ theses[last'.tid].status \in {"draft", "needs_revision"}
               /\ theses' = [theses EXCEPT ![last'.tid] = theses'[last'.tid]]
               /\ theses'[last'.tid].status = "submitted"
               /\ last'.code = 200
          ELSE last'.code # 200]_vars

\* the owning student asked for approved on an under_review thesis and was refused
C3_Witness ==
    /\ last.op = "status"
    /\ role[last.actor] = "student"
    /\ last.arg = "approved"
    /\ last.prev.status = "under_review"
    /\ last.error = "Invalid status transition"
    /\ theses[last.tid].status = "under_review"

\* C4: a call of ProvideFeedback adds a feedback record only if the actor has role
\* advisor, the thesis is submitted or under_review, and the thesis has no advisor or the
\* actor is its advisor. When one of these fails the call raises ValidationException
\* (EntityNotFoundException only when the actor or the thesis is missing, and always when
\* the actor is missing or an advisor names a missing thesis) and changes neither
\* repository. An advisor passes the checks on every unassigned thesis in those statuses:
\* the call gets as far as persisting the advisor's assignment.
C4_FeedbackOnlyWhenPermitted ==
    [][FeedbackOp(last') =>
          LET a == last'.actor
              tid == last'.tid
              known == a \in DOMAIN role
              found == tid \in DOMAIN theses
              permitted ==
                  /\ known /\ found
                  /\ role[a] = "advisor"
                  /\ theses[tid].status \in {"submitted", "under_review"}
                  /\ theses[tid].advisor_id \in {None, a}
          IN  /\ feedbacks' # feedbacks => permitted
              /\ ~permitted => theses' = theses /\ feedbacks' = feedbacks
              /\ (~permitted /\ last'.op = "provide_feedback") =>
                    /\ last'.error \in {"ValidationException", "EntityNotFoundException"}
                    /\ last'.error = "EntityNotFoundException" => (~known \/ ~found)
                    /\ ~known => last'.error = "EntityNotFoundException"
                    /\ (known /\ role[a] = "advisor" /\ ~found)
                          => last'.error = "EntityNotFoundException"
              /\ (permitted /\ last'.op = "provide_feedback" /\ theses[tid].advisor_id = None)
                    => theses'[tid].advisor_id = a]_vars

\* an advisor was refused on an under_review thesis that another advisor holds
C4_Witness ==
    /\ last.op = "provide_feedback"
    /\ last.actor \in DOMAIN role
    /\ role[last.actor] = "advisor"
    /\ last.prev.status = "under_review"
    /\ last.prev.advisor_id \notin {None, last.actor}
    /\ last.error = "ValidationException"

\* C5: a feedback request by advisor A that is not refused as invalid, on a thesis that
\* is submitted with no advisor, ends with the thesis assigned to A and under_review and
\* with exactly one new feedback record for the thesis, by A, holding the submitted
\* comments in the order submitted.
C5_FeedbackOnUnassignedSubmitted ==
    [][(/\ FeedbackOp(last')
        /\ last'.actor \in Advisors
        /\ last'.error \notin {"Validation error", "ValidationException"}
        /\ last'.tid \in DOMAIN theses
        /\ theses[last'.tid].status = "submitted"
        /\ theses[last'.tid].advisor_id = None) =>
          LET tid == last'.tid
              n == Len(feedbacks)
          IN  /\ theses'[tid].advisor_id = last'.actor
              /\ theses'[tid].status = "under_review"
              /\ Len(feedbacks') = n + 1
              /\ SubSeq(feedbacks', 1, n) = feedbacks
              /\ feedbacks'[n + 1].thesis_id = tid
              /\ feedbacks'[n + 1].advisor_id = last'.actor
              /\ feedbacks'[n + 1].comments = last'.arg]_vars

\* C6: once a thesis has an advisor it keeps that advisor, and every feedback request on
\* it by anyone else is refused (a ValidationException out of the use case) and adds no
\* feedback, whatever the thesis has been through since.
C6_OtherAdvisorAlwaysRefused ==
    [][\A tid \in DOMAIN theses :
          theses[tid].advisor_id # None =>
            /\ tid \in DOMAIN theses'
            /\ theses'[tid].advisor_id = theses[tid].advisor_id
            /\ (FeedbackOp(last') /\ last'.tid = tid
                  /\ last'.actor # theses[tid].advisor_id) =>
                  /\ ~FeedbackSuccess(last')
                  /\ feedbacks' = feedbacks
                  /\ theses' = theses
                  /\ (last'.op = "provide_feedback" /\ last'.actor \in Advisors)
                        => last'.error = "ValidationException"]_vars

\* advisor a2 refused on a1's thesis after it went to needs_revision and was resubmitted
C6_Witness ==
    /\ last.op = "provide_feedback"
    /\ last.actor = "a2"
    /\ last.error = "ValidationException"
    /\ last.prev = [status |-> "submitted", advisor_id |-> "a1"]
    /\ theses[last.tid].submitted_at > 1
    /\ Len(feedbacks) >= 1

\* C7: the advisor_id of a thesis changes only from unset to the id of the advisor whose
\* assign or feedback request it is; an assign request on a thesis that has an advisor is
\* answered "Already assigned" and changes nothing.
C7_AdvisorSetOnce ==
    [][\A tid \in DOMAIN theses :
          /\ tid \in DOMAIN theses'
          /\ theses[tid].advisor_id # None
                => theses'[tid].advisor_id = theses[tid].advisor_id
          /\ theses'[tid].advisor_id # theses[tid].advisor_id =>
                /\ last'.op \in {"assign", "provide_feedback", "create_feedback"}
                /\ last'.tid = tid
                /\ last'.actor \in DOMAIN role
                /\ role[last'.actor] = "advisor"
                /\ theses'[tid].advisor_id = last'.actor
          /\ (last'.op = "assign" /\ last'.tid = tid /\ role[last'.actor] = "advisor"
                /\ theses[tid].advisor_id # None) =>
                /\ last'.error = "Already assigned"
                /\ theses' = theses]_vars

\* advisor a2 asked to be assigned to a thesis that a1 holds
C7_Witness ==
    /\ last.op = "assign"
    /\ last.actor = "a2"
    /\ last.prev.advisor_id = "a1"
    /\ last.error = "Already assigned"
    /\ theses[last.tid].advisor_id = "a1"

\* C8: every persisted feedback is for a thesis in the repository whose advisor_id is set
\* and is the feedback's advisor_id, and whose status is not draft.
C8_FeedbackFromAssignedAdvisor ==
    \A i \in 1..Len(feedbacks) :
        LET f == feedbacks[i]
        IN  /\ f.thesis_id \in DOMAIN theses
            /\ theses[f.thesis_id].advisor_id # None
            /\ theses[f.thesis_id].advisor_id = f.advisor_id
            /\ theses[f.thesis_id].status # "draft"

\* two feedback records on a thesis that has moved on to needs_revision
C8_Witness ==
    /\ Len(feedbacks) = 2
    /\ theses[feedbacks[1].thesis_id].status = "needs_revision"
    /\ last.op = "status"

\* C9: a read, update, status, download or feedback-list request on a thesis by an actor
\* who is not its student, not its advisor and not an admin is answered 403 and changes
\* nothing.
C9_ThesisScopedAccess ==
    [][(last'.op \in ThesisScopedOps /\ last'.tid \in DOMAIN theses) =>
          LET t == theses[last'.tid]
              a == last'.actor
              allowed == a = t.student_id \/ a = t.advisor_id \/ role[a] = "admin"
          IN  ~allowed =>
                /\ last'.code = 403
                /\ last'.error = "Permission denied"
                /\ theses' = theses
                /\ feedbacks' = feedbacks]_vars

\* advisor a2 asked for a status change of a thesis that a1 holds
C9_Witness ==
    /\ last.op = "status"
    /\ last.actor = "a2"
    /\ last.arg = "approved"
    /\ last.prev = [status |-> "under_review", advisor_id |-> "a1"]
    /\ last.code = 403

\* C10: an update request changes the persisted thesis only when the actor is the
\* thesis' student and the thesis is draft or needs_revision.
C10_ContentUpdateOnlyByOwner ==
    [][(last'.op = "update" /\ theses' # theses) =>
          /\ last'.tid \in DOMAIN theses
          /\ last'.actor = theses[last'.tid].student_id
          /\ theses[last'.tid].status \in {"draft", "needs_revision"}]_vars

\* C11: a feedback update request on a stored feedback is let through exactly when the
\* actor is the feedback's advisor or has role admin; for everyone else it is answered
\* 403 and the feedback repository is unchanged.
C11_FeedbackUpdateAuthorOrAdmin ==
    [][(last'.op = "update_feedback" /\ FeedbackExists(feedbacks, last'.arg)) =>
          LET fb == feedbacks[last'.arg]
              permitted == last'.actor = fb.advisor_id \/ role[last'.actor] = "admin"
          IN  /\ permitted <=> last'.code # 403
              /\ ~permitted => feedbacks' = feedbacks]_vars

\* C12: a feedback update request on a feedback whose thesis is no longer submitted or
\* under_review is refused and leaves the feedback repository unchanged.
C12_FeedbackUpdateOnlyInReview ==
    [][(/\ last'.op = "update_feedback"
        /\ FeedbackExists(feedbacks, last'.arg)
        /\ theses[feedbacks[last'.arg].thesis_id].status
              \notin {"submitted", "under_review"}) =>
          /\ last'.code # 200
          /\ feedbacks' = feedbacks]_vars

\* C13 as stated: a status request of any actor with role advisor or admin, for an edge
\* S -> T of the transition table, succeeds and takes the thesis to T.
C13_AnyAdvisorOrAdminTransition ==
    [][(/\ last'.op = "status"
        /\ last'.tid \in DOMAIN theses
        /\ role[last'.actor] \in {"advisor", "admin"}
        /\ <<theses[last'.tid].status, last'.arg>> \in TransitionTable) =>
          /\ last'.code = 200
          /\ theses'[last'.tid].status = last'.arg]_vars

\* C13: a status request of the thesis' assigned advisor or of an admin, for an edge
\* S -> T of the transition table, succeeds and takes the thesis to T: the route puts no
\* restriction of its own on these roles.
C13_AssignedAdvisorOrAdminTransition ==
    [][(/\ last'.op = "status"
        /\ last'.tid \in DOMAIN theses
        /\ \/ role[last'.actor] = "admin"
           \/ role[last'.actor] = "advisor" /\ last'.actor = theses[last'.tid].advisor_id
        /\ <<theses[last'.tid].status, last'.arg>> \in TransitionTable) =>
          /\ last'.code = 200
          /\ theses'[last'.tid].status = last'.arg]_vars

\* the assigned advisor has approved the thesis
C13_Witness ==
    /\ last.op = "status"
    /\ last.actor = "a1"
    /\ last.prev = [status |-> "under_review", advisor_id |-> "a1"]
    /\ last.arg = "approved"
    /\ last.code = 200
    /\ theses[last.tid].status = "approved"

\* C14: a step that takes a thesis into submitted, from draft or from needs_revision, sets
\* submitted_at to the time of that step, and no other step changes submitted_at; so
\* submitted_at is always the time of the latest entry into submitted.
C14_SubmittedAtIsLastEntry ==
    [][\A tid \in DOMAIN theses :
          /\ tid \in DOMAIN theses'
          /\ IF theses'[tid].status = "submitted" /\ theses[tid].status # "submitted"
             THEN /\ clock' = clock + 1
                  /\ theses'[tid].submitted_at = clock'
             ELSE theses'[tid].submitted_at = theses[tid].submitted_at]_vars

\* a thesis resubmitted after a revision was asked for
C14_Witness ==
    /\ last.op = "status"
    /\ last.prev.status = "needs_revision"
    /\ last.code = 200
    /\ theses[last.tid].status = "submitted"
    /\ theses[last.tid].submitted_at = clock
    /\ clock >= 4

\* C15 as stated: each of submitted_at, approved_at and rejected_at, once set, keeps its
\* value.
C15_TimestampsSetOnce ==
    [][\A tid \in DOMAIN theses :
          /\ tid \in DOMAIN theses'
          /\ theses[tid].submitted_at # NoTime
                => theses'[tid].submitted_at = theses[tid].submitted_at
          /\ theses[tid].approved_at # NoTime
                => theses'[tid].approved_at = theses[tid].approved_at
          /\ theses[tid].rejected_at # NoTime
                => theses'[tid].rejected_at = theses[tid].rejected_at]_vars

\* C15: approved_at and rejected_at are set once, on entry into approved and rejected,
\* and then keep their value; submitted_at changes only on an entry into submitted (the
\* first and every later one); none of the three, once set, is ever cleared.
C15_TimestampsNeverCleared ==
    [][\A tid \in DOMAIN theses :
          LET t == theses[tid]
              u == theses'[tid]
          IN  /\ tid \in DOMAIN theses'
              /\ t.approved_at # NoTime => u.approved_at = t.approved_at
              /\ t.rejected_at # NoTime => u.rejected_at = t.rejected_at
              /\ t.submitted_at # NoTime => u.submitted_at # NoTime
              /\ u.approved_at # t.approved_at
                    => u.status = "approved" /\ t.status # "approved"
              /\ u.rejected_at # t.rejected_at
                    => u.status = "rejected" /\ t.status # "rejected"
              /\ u.submitted_at # t.submitted_at
                    => u.status = "submitted" /\ t.status # "submitted"]_vars

\* a revision has been asked for on a submitted thesis, which keeps its submitted_at
C15_Witness ==
    /\ last.op = "status"
    /\ last.arg = "needs_revision"
    /\ last.code = 200
    /\ theses[last.tid].status = "needs_revision"
    /\ theses[last.tid].submitted_at # NoTime

\* C16: when a feedback call that passed every check on a submitted thesis with no advisor
\* then fails in building the Feedback, in adding its comments or in storing it, the
\* thesis stays persisted with the actor as advisor and status under_review, and the
\* feedback repository has no record for the call.
C16_NoRollbackAfterAssignment ==
    [][(/\ last'.tid \in DOMAIN theses
        /\ theses[last'.tid].status = "submitted"
        /\ theses[last'.tid].advisor_id = None
        /\ last'.actor \in Advisors
        /\ \/ last'.op = "provide_feedback" /\ last'.error = "ValidationException"
           \/ last'.op = "create_feedback" /\ last'.code = 500 /\ last'.arg # << >>) =>
          /\ theses'[last'.tid].advisor_id = last'.actor
          /\ theses'[last'.tid].status = "under_review"
          /\ theses' = [theses EXCEPT ![last'.tid].advisor_id = last'.actor,
                                      ![last'.tid].status = "under_review"]
          /\ feedbacks' = feedbacks]_vars

\* the route's call failed on the first comment: advisor assigned, thesis advanced, no
\* feedback
C16_Witness ==
    /\ last.op = "create_feedback"
    /\ last.code = 500
    /\ last.arg = <<"c1", "c2">>
    /\ last.prev = [status |-> "submitted", advisor_id |-> None]
    /\ theses[last.tid].advisor_id = last.actor
    /\ theses[last.tid].status = "under_review"
    /\ feedbacks = << >>

C19_NotificationBestEffort ==
    [][/\ (SubmitOp(last') /\ Pos(last'.arg.events, "notify") # 0) =>
            /\ last'.tid \in DOMAIN theses'
            /\ SubmitSuccess(last')
       /\ (FeedbackOp(last') /\ Len(feedbacks') = Len(feedbacks) + 1) =>
            FeedbackSuccess(last')]_vars

\* C20: a request that wrote is never refused for what others stored since it loaded the
\* thesis, and what it stores is its own loaded entity with its own change: every other
\* field of the stored thesis is the value it loaded, whatever the repository held.
C20_LastWriterWins ==
    [][\A r \in Slots :
          (inflight[r].pc = "loaded" /\ inflight'[r].pc = "done") =>
            LET q == inflight[r]
                c == q.thesis
                w == theses'[q.tid]
            IN  /\ (q.op = "update" /\ UpdatableStatus(c) /\ q.arg # "") =>
                      /\ inflight'[r].code = 200
                      /\ w = [c EXCEPT !.title = q.arg]
                /\ (/\ q.op = "status"
                    /\ <<c.status, q.arg>> \in TransitionTable
                    /\ role[q.actor] = "student" => q.arg = "submitted") =>
                      /\ inflight'[r].code = 200
                      /\ w.status = q.arg
                      /\ w.title = c.title
                      /\ w.advisor_id = c.advisor_id
                      /\ w.file_name = c.file_name
                      /\ w.version = c.version
                /\ inflight'[r].code # 200 => theses' = theses]_vars

\* student s1's new title and advisor a1's status change were both made on the draft as
\* loaded; both were answered 200; the title, written first, is gone
C20_Witness ==
    /\ inflight["r1"].pc = "done"
    /\ inflight["r2"].pc = "done"
    /\ inflight["r1"].op = "update"
    /\ inflight["r1"].actor = "s1"
    /\ inflight["r1"].arg = "Study Y"
    /\ inflight["r1"].code = 200
    /\ inflight["r2"].op = "status"
    /\ inflight["r2"].actor = "a1"
    /\ inflight["r2"].code = 200
    /\ inflight["r1"].thesis = inflight["r2"].thesis
    /\ last.op = "status"
    /\ last.prev.status = "draft"
    /\ theses["t1"].status = "submitted"
    /\ theses["t1"].title = "Study X"

\* the feedback requests that carry a rating, and whether the rating was refused
RatingOp(l) ==
    l.op \in {"create_feedback", "provide_feedback", "update_feedback", "update_overall_feedback"}

RatingRefused(l) ==
    \/ l.code = 400 /\ l.error = "Validation error"
    \/ l.code = 0 /\ l.error = "ValidationException"

\* the request passed every check that comes before the rating's: the thesis is open to
\* feedback, the feedback to update exists
RatingReached(l, fbs) ==
    IF l.op \in {"create_feedback", "provide_feedback"}
    THEN l.prev.status \in {"submitted", "under_review"}
    ELSE FeedbackExists(fbs, l.arg)

\* C21: every stored Feedback has no rating or a rating in 1..5; a create or an update
\* carrying rating 0 or 6 stores nothing and, once it reaches the rating's check, is
\* refused with a validation error; one by the author carrying 1..5 or no rating is accepted
\* and stores that rating (no rating on update_overall_feedback leaves the rating).
C21_RatingInRange ==
    [][/\ \A i \in 1..Len(feedbacks') :
              feedbacks'[i].rating = NoRating \/ feedbacks'[i].rating \in 1..5
       /\ (RatingOp(last') /\ last'.rating \in {0, 6}) =>
              /\ last'.error # None
              /\ feedbacks' = feedbacks
              /\ RatingReached(last', feedbacks) => RatingRefused(last')
       /\ (/\ RatingOp(last')
           /\ last'.rating \in {NoRating} \cup (1..5)
           /\ RatingReached(last', feedbacks)) =>
              /\ last'.error = None
              /\ last'.op \in {"create_feedback", "provide_feedback"} =>
                    /\ Len(feedbacks') = Len(feedbacks) + 1
                    /\ feedbacks'[Len(feedbacks')].rating = last'.rating
              /\ last'.op = "update_feedback" =>
                    feedbacks'[last'.arg].rating = last'.rating
              /\ last'.op = "update_overall_feedback" =>
                    feedbacks'[last'.arg].rating =
                        IF last'.rating = NoRating THEN feedbacks[last'.arg].rating
                        ELSE last'.rating]_vars

\* a feedback created with rating 5 was updated to rating 1, and an update with rating 6
\* has just been refused
C21_Witness ==
    /\ Len(feedbacks) = 2
    /\ feedbacks[1].rating = 1
    /\ feedbacks[2].rating = NoRating
    /\ last.op = "update_feedback"
    /\ last.rating = 6
    /\ last.code = 400

\* C22: every stored thesis has one of the six statuses, a non-empty title and a
\* student_id that is set.
C22_ThesisWellFormed ==
    \A tid \in DOMAIN theses :
        /\ theses[tid].status \in ThesisStatus
        /\ theses[tid].title \notin {"", None}
        /\ theses[tid].student_id \in Users

\* a thesis that was retitled, given a file and an advisor and reviewed, just after
\* update_title_description was called with an empty title
C22_Witness ==
    /\ "t1" \in DOMAIN theses
    /\ theses["t1"].title = "Study Z"
    /\ theses["t1"].file_name = "f1.pdf"
    /\ theses["t1"].advisor_id = "a1"
    /\ theses["t1"].status = "needs_revision"
    /\ last.op = "update_title_description"
    /\ last.arg = ""

\* C23: a thesis's version starts at 1, never decreases, and goes up by one with each
\* update that puts a new file on the existing thesis.
C23_VersionCountsRevisions ==
    [][\A tid \in DOMAIN theses' :
          IF tid \notin DOMAIN theses
          THEN theses'[tid].version = 1
          ELSE IF /\ last'.op = "update"
                  /\ last'.code = 200
                  /\ theses'[tid].file_name # theses[tid].file_name
               THEN theses'[tid].version = theses[tid].version + 1
               ELSE theses'[tid].version >= theses[tid].version]_vars

\* C24: every stored user whose role is student has a non-empty student identifier,
\* whatever registrations and admin updates came before.
C24_StudentsHaveStudentId ==
    \A u \in DOMAIN role :
        role[u] = "student" => users[u].student_id \notin {None, ""}

\* the requests that go through authenticate
AuthOps == {"me", "logout", "update_user"}

\* authenticate answered the request itself
AuthRefused(l) ==
    \/ l.code = 401 /\ l.error \in {"Authentication required", "Invalid authentication token",
                                    "Invalid user"}
    \/ l.code = 403 /\ l.error = "Account inactive"

\* C25: authenticate calls the route exactly when the request carries a Bearer token that
\* verify_token accepts, made out to a stored user who is active; otherwise the route does
\* not run and the answer is 401 for no token, 401 for a bad token, 401 for an unknown
\* user and 403 for an inactive one, looked at in this order.
C25_AuthenticateOrder ==
    [][last'.op \in AuthOps =>
          LET header == last'.arg.header
              bearer == header.scheme \in {"Bearer", "bearer"}
              token == header.token
              accepted == token.kind = "good" /\ token \notin blacklisted_tokens
              known == token.sub \in DOMAIN role
          IN  /\ ~bearer =>
                    last'.code = 401 /\ last'.error = "Authentication required"
              /\ (bearer /\ ~accepted) =>
                    last'.code = 401 /\ last'.error = "Invalid authentication token"
              /\ (bearer /\ accepted /\ ~known) =>
                    last'.code = 401 /\ last'.error = "Invalid user"
              /\ (bearer /\ accepted /\ known /\ ~users[token.sub].is_active) =>
                    last'.code = 403 /\ last'.error = "Account inactive"
              /\ (bearer /\ accepted /\ known /\ users[token.sub].is_active) =>
                    /\ ~AuthRefused(last')
                    /\ last'.actor = token.sub
                    /\ last'.op = "me" => last'.code = 200
                    /\ last'.op = "logout" => token \in blacklisted_tokens'
              /\ AuthRefused(last') =>
                    /\ last'.actor = None
                    /\ UNCHANGED <<role, users, blacklisted_tokens>>]_vars

\* advisor a1, switched off by the admin, has just been refused with 403 on a token that
\* is good, while the admin's own token was revoked by a logout
C25_Witness ==
    /\ last.op = "me"
    /\ last.arg.header = AdvisorHeader
    /\ last.code = 403
    /\ ~users["a1"].is_active
    /\ AdminHeader.token \in blacklisted_tokens

\* C26: a login with the right password, made right after the user sent the code that
\* was mailed to them before it expired, is answered 200 with the tokens, and not 403
\* email-not-verified.
C26_LoginAfterVerification ==
    [][(/\ last.op = "verify_email"
        /\ last.actor \in DOMAIN outbox
        /\ last.arg = outbox[last.actor].code
        /\ outbox[last.actor].expiry > clock
        /\ last'.op = "login"
        /\ last'.actor = last.actor
        /\ users[last.actor].is_active
        /\ verify_password(last'.arg, users[last.actor].password_hash)) =>
          last'.code = 200]_vars

\* C27: a status request that passed the access guard and names one of the six statuses,
\* for a transition that is not in the table, is answered with a client error that is not
\* the generic server error, and the stored thesis keeps every field.
C27_InvalidTransitionIsClientError ==
    [][(/\ last'.op = "status"
        /\ last'.code \notin {403, 404}
        /\ last'.arg \in ThesisStatus
        /\ <<last'.prev.status, last'.arg>> \notin TransitionTable) =>
          /\ last'.code \in 400..499
          /\ last'.error # "Server error"
          /\ theses' = theses]_vars

\* C28: once no feedback call is under way, every Feedback record of a thesis is by the
\* advisor stored as that thesis's advisor_id, also when two advisors' calls on an
\* unassigned submitted thesis ran side by side.
C28_OneAdvisorAccepted ==
    (\A r \in Slots : inflight[r].pc \in {"idle", "done"}) =>
        \A i \in 1..Len(feedbacks) :
            feedbacks[i].advisor_id = theses[feedbacks[i].thesis_id].advisor_id

\* C29: also when requests on a thesis overlap between reading and writing it, every
\* change of its persisted status is an edge of the transition table, so an approved or
\* rejected thesis keeps its status, and approved_at and rejected_at are never cleared.
C29_PersistedStatusFollowsTable ==
    [][\A tid \in DOMAIN theses :
          LET t == theses[tid]
              u == theses'[tid]
          IN  /\ tid \in DOMAIN theses'
              /\ u.status # t.status => <<t.status, u.status>> \in TransitionTable
              /\ t.status \in {"approved", "rejected"} => u.status = t.status
              /\ t.approved_at # NoTime => u.approved_at # NoTime
              /\ t.rejected_at # NoTime => u.rejected_at # NoTime]_vars

\* the thesis is in a status with an outgoing transition and the team sets out for g
SetOutFor(g) == goal = g /\ \E tid \in DOMAIN theses : theses[tid].status \in OpenStatuses

Arrived(g) == \E tid \in DOMAIN theses : theses[tid].status = g

\* C30: no reachable thesis state with status draft, submitted, under_review or
\* needs_revision, with or without an advisor, is a dead end: the owner, the advisor and
\* the admin can bring it to approved and can bring it to rejected by requests that are
\* accepted, and can take it from needs_revision to under_review and back again.
C30_NoDeadEnd ==
    /\ SetOutFor("approved") ~> Arrived("approved")
    /\ SetOutFor("rejected") ~> Arrived("rejected")
    /\ SetOutFor("under_review") ~> Arrived("under_review")
    /\ SetOutFor("needs_revision") ~> Arrived("needs_revision")

\* a thesis approved after a round of revision: draft, submitted, under_review,
\* needs_revision, submitted, under_review, approved
C30_Witness ==
    /\ goal = "approved"
    /\ \E tid \in DOMAIN theses :
          /\ theses[tid].status = "approved"
          /\ theses[tid].approved_at > MaxClock
          /\ theses[tid].submitted_at > LongestPath

====
